---- MODULE Spec2Model ----
(***************************************************************************)
(* State-machine model of the swf-testbed agents:                          *)
(*   - the Workflow Runner (workflows/workflow_runner.py) together with    *)
(*     the DAQ executor it drives (workflows/stf_datataking.py),           *)
(*   - the Fast-Processing agent (example_agents/fast_processing_agent.py),*)
(*   - the Fast-Monitoring agent (example_agents/example_fastmon_agent.py), *)
(*   - the User Agent Manager (swf_testbed_cli/user_agent_manager.py) and   *)
(*     the broker connection of the programs that open one.                *)
(* The Monitor REST service and the broker are the environment: a Monitor  *)
(* call may succeed or fail, and what an agent publishes is appended to    *)
(* the log of its destination.                                             *)
(***************************************************************************)
EXTENDS Integers, Sequences, FiniteSets, TLC

VARIABLES
    agent,                  \* which agent process is observed: "runner" or "fast_processing"
    \* ---- Workflow Runner (one process) ----
    mode,                   \* "persistent" (runner.run()) or "run_once" (main, --run-once)
    operational_state,      \* BaseAgent.operational_state of the runner
    stop_event,             \* WorkflowRunner.stop_event (threading.Event)
    current_execution_id,   \* WorkflowRunner.current_execution_id (0 = None)
    current_workflow_name,  \* WorkflowRunner.current_workflow_name
    workflow_thread,        \* WorkflowRunner.workflow_thread (0 = None, else thread number)
    listener,               \* position of the broker listener thread inside a handler
    nthreads,               \* number of workflow threads started so far
    thr,                    \* thr[t]: the locals of workflow thread t (run_workflow frame)
    \* ---- Monitor (REST service, environment) ----
    mon_next_id,            \* state/next-workflow-execution-id counter
    mon_run_number,         \* run-number counter
    mon_defs,               \* workflow-definitions rows, in creation order
    mon_execs,              \* workflow-executions rows (their execution ids), in creation order
    patches,                \* PATCH workflow-executions/{id}/ requests since the last accepted run
    \* ---- Broker (environment) ----
    epictopic,              \* messages published on /topic/epictopic since the last accepted run
    \* ---- Fast-Processing agent (one process) ----
    fp_operational_state,   \* BaseAgent.operational_state of the agent
    fp_current_run_id,      \* self.current_run_id (0 = None)
    fp_current_execution_id,\* self.current_execution_id (0 = None)
    fp_workflow_params,     \* self.workflow_params
    fp_tf_files_received,   \* self.tf_files_received
    fp_slices_created,      \* self.slices_created
    fp_stats,               \* self.stats
    \* ---- Monitor rows written by the Fast-Processing agent ----
    mon_tf_slices,          \* tf-slices rows, in creation order (database id = position)
    mon_run_states,         \* run-states rows: the slice counters of each run
    fp_calls,               \* Monitor calls made while handling the last accepted message
    \* ---- Broker destinations of the Fast-Processing agent ----
    panda_workers,          \* /topic/panda.workers: published while handling the last accepted message
    panda_slices,           \* /topic/panda.slices: published while handling the last accepted message
    \* ---- _create_tf_slices called on its own ----
    call_num_slices,        \* the num_slices argument of the call (0 = no call)
    call_slices,            \* the slice data the call computed (<<>> = not computed yet)
    \* ---- Fast-Monitoring agent (one process) ----
    fm_config,              \* self.config
    fm_current_run_id,      \* self.current_run_id (0 = None)
    fm_current_execution_id,\* self.current_execution_id (0 = None)
    fm_processing_stats,    \* self.processing_stats
    fastmon_files,          \* fastmon-files rows created while handling the last accepted message
    fm_sent,                \* sent to self.destination while handling the last accepted message
    \* ---- A program and its broker connection (one process) ----
    program,                \* which program runs: "agent_manager", "example_agent", ...
    main_pc,                \* position of the main thread
    attempt,                \* connection attempts made by the main thread
    receiver_pc,            \* position of the stomp receiver thread inside a listener callback
    running,                \* UserAgentManager.running
    mq_connected,           \* self.mq_connected of the agents
    is_connected,           \* self.conn.is_connected()
    subscribed,             \* the broker holds the program's subscription
    broker_up,              \* the broker accepts connections (environment)
    connect_log,            \* what the main thread has done to get connected, in order
    \* ---- User Agent Manager ----
    uam_config,             \* self.config: the [agents] enabled in it, in file order
    agents_running,         \* self.agents_running
    supervisor_calls,       \* load_config and supervisord calls of the last start_testbed
    \* ---- Workflow Runner: the config of a run ----
    testbed_config,         \* the sections of the testbed config file
    testbed_overrides,      \* WorkflowRunner.testbed_overrides
    config_run              \* the last run_workflow: its config files, its parameters and the
                            \* config it passed to the executor

runner_vars == <<mode, operational_state, stop_event, current_execution_id,
                 current_workflow_name, workflow_thread, listener, nthreads, thr>>
monitor_vars == <<mon_next_id, mon_run_number, mon_defs, mon_execs, patches>>
fp_self == <<fp_operational_state, fp_current_run_id, fp_current_execution_id,
             fp_workflow_params, fp_tf_files_received, fp_slices_created, fp_stats>>
fp_vars == <<fp_self, mon_tf_slices, mon_run_states, fp_calls, panda_workers, panda_slices>>
call_vars == <<call_num_slices, call_slices>>
fm_vars == <<fm_config, fm_current_run_id, fm_current_execution_id, fm_processing_stats,
             fastmon_files, fm_sent>>
conn_vars == <<program, main_pc, attempt, receiver_pc, running, mq_connected, is_connected,
               subscribed, broker_up, connect_log>>
uam_vars == <<uam_config, agents_running, supervisor_calls>>
cfg_vars == <<testbed_config, testbed_overrides, config_run>>
other_vars == <<fm_vars, conn_vars, uam_vars, cfg_vars>>
vars == <<agent, runner_vars, monitor_vars, epictopic, fp_vars, call_vars, other_vars>>

----------------------------------------------------------------------------
(* Bounds of the model *)

\* run_workflow commands accepted by one runner
MaxRuns == 2
\* largest physics_period_count a command asks for (0 = infinite)
MaxPeriods == 2
\* largest stf_count a command asks for (0 = not set: duration-based)
MaxStfCount == 2
\* run ids carried by the messages the Fast-Processing agent receives
MaxRunId == 2
\* largest fast_processing.slices_per_sample of a workflow execution
MaxSlicesPerSample == 2
\* tf_file_registered messages counted per run, by the agent and by the run-states row
MaxTfFiles == 1
\* tf-slices rows after which no further tf_file_registered is followed
MaxSliceRows == 1
\* the same two, for an agent that receives the messages of one run only
MaxRunTfFiles == 2
MaxRunSliceRows == 3
\* slice_result messages counted by the agent
MaxResults == 2
\* stf messages counted by the Fast-Monitoring agent
MaxStfMessages == 3
\* largest tf_files_per_stf of a Fast-Monitoring configuration
MaxTfFilesPerStf == 2
\* slices_per_sample values 1..MaxSmallSliceCount given to _create_tf_slices on its
\* own, besides the values around tfs_per_stf
MaxSmallSliceCount == 60
\* simulated time after which the stepping loop of a run is no longer followed:
\* one tick more than the longest finite run takes
MaxNow == 5 + MaxPeriods * (3 * MaxStfCount + 4) + 1

----------------------------------------------------------------------------
(* Inputs *)

Namespace == "alice"
OtherNamespace == "bob"
WorkflowName == "stf_datataking"

\* Contents of workflows/<name>.py when it is loaded: the DAQ executor, or
\* code that defines no WorkflowExecutor class.
WorkflowCodes == {"daq_executor", "no_executor"}

\* [daq_state_machine] delays, in simulation ticks
no_beam_not_ready_delay == 1
broadcast_delay == 1
beam_not_ready_delay == 1
beam_ready_delay == 1
stf_generation_time == 1
stf_interval == 1
standby_duration == 1
beam_not_ready_end_delay == 1
\* env.timeout(0.1) at the end of every broadcast_* process
broadcast_timeout == 1
\* _create_tf_slices, line 441
tfs_per_stf == 1000
\* handle_tf_file_registered, line 213: fast_processing.get('slices_per_sample', 15)
default_slices_per_sample == 15
\* a non-zero physics_period_duration and a non-zero duration limit
PhysicsPeriodDuration == 3
DurationLimit == 9

Configs ==
    { c \in [physics_period_count : 0..MaxPeriods,
             stf_count : 0..MaxStfCount,
             physics_period_duration : {0, PhysicsPeriodDuration},
             duration : {0, DurationLimit}] :
        c.stf_count # 0 => c.physics_period_duration = PhysicsPeriodDuration }

DefaultConfig == [physics_period_count |-> 1, stf_count |-> 1,
                  physics_period_duration |-> PhysicsPeriodDuration, duration |-> 0]

\* What the --run-once command line selects: the workflow file and its parameters.
RunRequests ==
    { r \in [code : WorkflowCodes, cfg : Configs] :
        r.code = "no_executor" => r.cfg = DefaultConfig }

\* What a run_workflow command selects: as above, with fewer parameter values,
\* since a command is handled while earlier runs have left their records.
MessageRequests ==
    { r \in RunRequests : r.cfg.physics_period_count <= 1 /\ r.cfg.stf_count = 1 }

----------------------------------------------------------------------------
(* DAQ executor: stf_datataking.WorkflowExecutor as a SimPy process *)

NoSim == [pc |-> "none", sub |-> 0, period |-> 0, i |-> 0, stf_sequence |-> 0,
          run_id |-> 0, now |-> 0, start_time |-> 0, proc |-> "none"]

\* executor = WorkflowExecutor(...); workflow_process = env.process(executor.execute(env))
NewSim == [NoSim EXCEPT !.pc = "start", !.proc = "alive"]

\* yield env.process(self.broadcast_xxx(env)): the sub-process is initialised
\* (sub = 1), has sent and waits on its timeout (sub = 2), has returned (sub = 3).
StartBroadcast(s, p) == [s EXCEPT !.pc = p, !.sub = 1]
\* yield env.timeout(...)
WaitAt(s, p) == [s EXCEPT !.pc = p, !.sub = 0]

WhileCondition(s, cfg) ==
    cfg.physics_period_count = 0 \/ s.period < cfg.physics_period_count

PhysicsLoop(s, cfg) ==
    IF WhileCondition(s, cfg)
    THEN IF s.period = 0 THEN StartBroadcast(s, "broadcast_run_start")
                         ELSE StartBroadcast(s, "broadcast_resume_run")
    ELSE StartBroadcast(s, "broadcast_run_end")

generate_single_stf(s) ==
    StartBroadcast([s EXCEPT !.stf_sequence = @ + 1], "broadcast_stf_gen")

AfterPhysics(s, cfg) ==
    LET s1 == [s EXCEPT !.period = @ + 1]
    IN  IF WhileCondition(s1, cfg) THEN StartBroadcast(s1, "broadcast_pause_run")
                                   ELSE PhysicsLoop(s1, cfg)

\* The duration loop with <= in place of <: it enters a period of no duration.
DurationLoop_Inclusive(s, cfg) ==
    IF (s.now - s.start_time) <= cfg.physics_period_duration
    THEN generate_single_stf(s)
    ELSE AfterPhysics(s, cfg)

DurationLoop(s, cfg) ==
    IF (s.now - s.start_time) < cfg.physics_period_duration
    THEN generate_single_stf(s)
    ELSE AfterPhysics(s, cfg)

\* generate_stfs_during_physics numbering the STFs of every period from 1.
generate_stfs_during_physics_Restarting(s, cfg) ==
    IF cfg.stf_count # 0
    THEN generate_single_stf([s EXCEPT !.i = 0, !.stf_sequence = 0])
    ELSE DurationLoop([s EXCEPT !.start_time = s.now, !.stf_sequence = 0], cfg)

generate_stfs_during_physics(s, cfg) ==
    IF cfg.stf_count # 0
    THEN generate_single_stf([s EXCEPT !.i = 0])
    ELSE DurationLoop([s EXCEPT !.start_time = s.now], cfg)

AfterSingleStf(s, cfg) ==
    IF cfg.stf_count # 0
    THEN IF s.i < cfg.stf_count - 1 THEN WaitAt(s, "stf_interval")
                                    ELSE AfterPhysics(s, cfg)
    ELSE IF (s.now - s.start_time) < cfg.physics_period_duration
         THEN WaitAt(s, "stf_interval")
         ELSE DurationLoop(s, cfg)

AfterInterval(s, cfg) ==
    IF cfg.stf_count # 0
    THEN generate_single_stf([s EXCEPT !.i = @ + 1])
    ELSE DurationLoop(s, cfg)

\* The generator execute() resumed at the yield it is suspended at.
execute(s, cfg) ==
    CASE s.pc = "no_beam_not_ready"       -> StartBroadcast(s, "broadcast_run_imminent")
      [] s.pc = "broadcast_run_imminent"  -> WaitAt(s, "imminent_broadcast_delay")
      [] s.pc = "imminent_broadcast_delay"-> WaitAt(s, "beam_not_ready")
      [] s.pc = "beam_not_ready"          -> WaitAt(s, "beam_ready")
      [] s.pc = "beam_ready"              -> PhysicsLoop(s, cfg)
      [] s.pc = "broadcast_run_start"     -> WaitAt(s, "physics_broadcast_delay")
      [] s.pc = "broadcast_resume_run"    -> WaitAt(s, "physics_broadcast_delay")
      [] s.pc = "physics_broadcast_delay" -> generate_stfs_during_physics(s, cfg)
      [] s.pc = "broadcast_stf_gen"       -> WaitAt(s, "stf_generation")
      [] s.pc = "stf_generation"          -> AfterSingleStf(s, cfg)
      [] s.pc = "stf_interval"            -> AfterInterval(s, cfg)
      [] s.pc = "broadcast_pause_run"     -> WaitAt(s, "pause_broadcast_delay")
      [] s.pc = "pause_broadcast_delay"   -> WaitAt(s, "standby")
      [] s.pc = "standby"                 -> PhysicsLoop(s, cfg)
      [] s.pc = "broadcast_run_end"       -> WaitAt(s, "end_broadcast_delay")
      [] s.pc = "end_broadcast_delay"     -> WaitAt(s, "beam_not_ready_end")
      [] s.pc = "beam_not_ready_end"      -> [s EXCEPT !.pc = "finished", !.sub = 0,
                                                       !.proc = "triggered"]
      [] OTHER                            -> s

\* The delay of the timeout the generator waits on.
TimeoutOf(pc) ==
    CASE pc = "no_beam_not_ready"        -> no_beam_not_ready_delay
      [] pc = "imminent_broadcast_delay" -> broadcast_delay
      [] pc = "beam_not_ready"           -> beam_not_ready_delay
      [] pc = "beam_ready"               -> beam_ready_delay
      [] pc = "physics_broadcast_delay"  -> broadcast_delay
      [] pc = "stf_generation"           -> stf_generation_time
      [] pc = "stf_interval"             -> stf_interval
      [] pc = "pause_broadcast_delay"    -> broadcast_delay
      [] pc = "standby"                  -> standby_duration
      [] pc = "end_broadcast_delay"      -> broadcast_delay
      [] pc = "beam_not_ready_end"       -> beam_not_ready_end_delay
      [] OTHER                           -> 0

\* msg_type of the message a broadcast_* process sends.
MsgTypeOf(pc) ==
    CASE pc = "broadcast_run_imminent" -> "run_imminent"
      [] pc = "broadcast_run_start"    -> "start_run"
      [] pc = "broadcast_resume_run"   -> "resume_run"
      [] pc = "broadcast_pause_run"    -> "pause_run"
      [] pc = "broadcast_run_end"      -> "end_run"
      [] pc = "broadcast_stf_gen"      -> "stf_gen"
      [] OTHER                         -> "none"

\* The decimal digits of n >= 0, most significant first.
RECURSIVE Digits(_)
Digits(n) == IF n < 10 THEN <<n>> ELSE Digits(n \div 10) \o <<n % 10>>

\* format(n, "06d"): the digits of n, with zeros on the left up to the width.
stf_sequence_width == 6
ZeroPadded(n, width) ==
    LET digits == Digits(n)
    IN  IF Len(digits) >= width THEN digits
        ELSE [k \in 1..(width - Len(digits)) |-> 0] \o digits

\* generate_single_stf, line 97: f"swf.{self.run_id}.{self.stf_sequence:06d}.stf",
\* as its dot-separated parts.
StfFilename(run_id, stf_sequence) ==
    [prefix |-> "swf", run_id |-> run_id,
     sequence |-> ZeroPadded(stf_sequence, stf_sequence_width), suffix |-> "stf"]

\* A message other than stf_gen has no filename.
NoFilename == [prefix |-> "", run_id |-> 0, sequence |-> <<>>, suffix |-> ""]

\* The message dict a broadcast_* process builds.
BroadcastMessage(s, execution_id) ==
    [msg_type |-> MsgTypeOf(s.pc), namespace |-> Namespace,
     execution_id |-> execution_id, run_id |-> s.run_id,
     sequence |-> IF s.pc = "broadcast_stf_gen" THEN s.stf_sequence ELSE 0,
     filename |-> IF s.pc = "broadcast_stf_gen"
                  THEN StfFilename(s.run_id, s.stf_sequence) ELSE NoFilename]

----------------------------------------------------------------------------
(* SimPy: one env.step() of the environment the executor runs in *)

\* env.step() for every event but the Initialize event of execute() itself.
env_step(s, cfg) ==
    IF s.sub = 1 THEN [s EXCEPT !.sub = 2]
    ELSE IF s.sub = 2 THEN [s EXCEPT !.sub = 3, !.now = @ + broadcast_timeout]
    ELSE IF s.sub = 3 THEN execute(s, cfg)
    ELSE IF s.pc = "finished" THEN [s EXCEPT !.proc = "processed"]
    ELSE execute([s EXCEPT !.now = @ + TimeoutOf(s.pc)], cfg)

\* The message the event publishes on /topic/epictopic, if any.
Published(s, execution_id) ==
    IF s.sub = 1 THEN <<BroadcastMessage(s, execution_id)>> ELSE <<>>

----------------------------------------------------------------------------
(* Workflow Runner *)

NoThread == [pc |-> "unborn", execution_id |-> 0, code |-> "none",
             cfg |-> DefaultConfig, sim |-> NoSim]
DeadThread == [NoThread EXCEPT !.pc = "dead"]
StartedThread(r) == [NoThread EXCEPT !.pc = "generate_execution_id",
                                     !.code = r.code, !.cfg = r.cfg]

Threads == 1..MaxRuns
\* Thread t is inside _run_workflow_thread (set_ready() is its last statement).
Alive(t) == thr[t].pc \notin {"unborn", "dead"}

\* One step of thread t: its frame becomes rec.
Goto(t, rec) == thr' = [thr EXCEPT ![t] = rec]
At(t, pc) == thr[t].pc = pc

\* _update_execution_status: the PATCH request; the response is only printed.
update_execution_status(execution_id, status) ==
    patches' = Append(patches, [execution_id |-> execution_id, status |-> status,
                                end_time |-> (status = "completed")])

\* The sequence the count-based fallback computes from the executions listed.
FallbackSequence(rows) == Len(rows) + 1

\* run_workflow, lines 281-286: _generate_execution_id and current_execution_id.
generate_execution_id(t) ==
    /\ At(t, "generate_execution_id")
    /\ \E next_id_ok \in BOOLEAN, count_ok \in BOOLEAN :
          IF next_id_ok
          THEN \* next-workflow-execution-id returns 200: sequence = data['sequence']
               /\ mon_next_id' = mon_next_id + 1
               /\ current_execution_id' = mon_next_id + 1
               /\ Goto(t, [thr[t] EXCEPT !.pc = "register_workflow_definition",
                                         !.execution_id = mon_next_id + 1])
          ELSE IF count_ok
          THEN \* the executions listing returns 200: sequence = len(results) + 1
               /\ current_execution_id' = FallbackSequence(mon_execs)
               /\ Goto(t, [thr[t] EXCEPT !.pc = "register_workflow_definition",
                                         !.execution_id = FallbackSequence(mon_execs)])
               /\ UNCHANGED mon_next_id
          ELSE \* raise Exception("Failed to generate execution ID - API unavailable")
               /\ Goto(t, [thr[t] EXCEPT !.pc = "except"])
               /\ UNCHANGED <<mon_next_id, current_execution_id>>
    /\ UNCHANGED <<agent, mode, operational_state, stop_event, current_workflow_name,
                   workflow_thread, listener, nthreads, mon_run_number, mon_defs,
                   mon_execs, patches, epictopic>>

\* The payload _register_workflow_definition builds.
DefinitionPayload(t) ==
    [definition |-> thr[t].code,
     parameter_values |-> [physics_period_count |-> thr[t].cfg.physics_period_count,
                           stf_count |-> thr[t].cfg.stf_count,
                           physics_period_duration |-> thr[t].cfg.physics_period_duration]]

\* run_workflow, lines 288-296: _register_workflow_definition.
register_workflow_definition(t) ==
    /\ At(t, "register_workflow_definition")
    /\ \E check_ok \in BOOLEAN, post_ok \in BOOLEAN :
          IF check_ok /\ mon_defs # <<>>
          THEN \* existing definition: "immutable - don't update, just return existing"
               /\ Goto(t, [thr[t] EXCEPT !.pc = "create_execution_record"])
               /\ UNCHANGED mon_defs
          ELSE IF post_ok
          THEN \* nothing found, or the lookup did not return 200: POST, created
               /\ mon_defs' = Append(mon_defs, DefinitionPayload(t))
               /\ Goto(t, [thr[t] EXCEPT !.pc = "create_execution_record"])
          ELSE \* raise Exception("Failed to register workflow definition")
               /\ Goto(t, [thr[t] EXCEPT !.pc = "except"])
               /\ UNCHANGED mon_defs
    /\ UNCHANGED <<agent, mode, operational_state, stop_event, current_execution_id,
                   current_workflow_name, workflow_thread, listener, nthreads,
                   mon_next_id, mon_run_number, mon_execs, patches, epictopic>>

\* run_workflow, lines 298-304: _create_execution_record.
create_execution_record(t) ==
    /\ At(t, "create_execution_record")
    /\ \E def_ok \in BOOLEAN, post_ok \in BOOLEAN :
          IF ~def_ok \/ mon_defs = <<>>
          THEN \* "Warning: Could not find workflow definition": return, no record
               /\ Goto(t, [thr[t] EXCEPT !.pc = "execute_workflow"])
               /\ UNCHANGED mon_execs
          ELSE IF post_ok
          THEN \* POST workflow-executions/ with status 'running'
               /\ mon_execs' = Append(mon_execs, thr[t].execution_id)
               /\ Goto(t, [thr[t] EXCEPT !.pc = "execute_workflow"])
          ELSE \* raise Exception("Failed to create execution record")
               /\ Goto(t, [thr[t] EXCEPT !.pc = "except"])
               /\ UNCHANGED mon_execs
    /\ UNCHANGED <<agent, mode, operational_state, stop_event, current_execution_id,
                   current_workflow_name, workflow_thread, listener, nthreads,
                   mon_next_id, mon_run_number, mon_defs, patches, epictopic>>

\* _execute_workflow up to the stepping loop: exec(workflow_code, namespace).
execute_workflow(t) ==
    /\ At(t, "execute_workflow")
    /\ IF thr[t].code = "daq_executor"
       THEN Goto(t, [thr[t] EXCEPT !.pc = "on_simulation_step", !.sim = NewSim])
       ELSE \* raise ValueError("WorkflowExecutor class not found in workflow code")
            Goto(t, [thr[t] EXCEPT !.pc = "except"])
    /\ UNCHANGED <<agent, mode, operational_state, stop_event, current_execution_id,
                   current_workflow_name, workflow_thread, listener, nthreads,
                   monitor_vars, epictopic>>

\* _on_simulation_step that does not look at the stop flag.
on_simulation_step_IgnoresStop == TRUE

\* _on_simulation_step: True to continue, False to stop.
on_simulation_step == ~stop_event

\* end_time = duration if duration and duration > 0 else float('inf')
DurationReached(t) ==
    thr[t].cfg.duration > 0 /\ thr[t].sim.now >= thr[t].cfg.duration

\* The head of the stepping loop, lines 624-636: which of the breaks is taken.
LoopBreaks(t) ==
    \/ ~on_simulation_step
    \/ thr[t].sim.proc = "processed"
    \/ DurationReached(t)

simulation_loop(t) ==
    /\ At(t, "on_simulation_step")
    /\ IF LoopBreaks(t)
       THEN Goto(t, [thr[t] EXCEPT !.pc = "update_completed"])
       ELSE /\ thr[t].sim.now < MaxNow
            /\ Goto(t, [thr[t] EXCEPT !.pc = "env_step"])
    /\ UNCHANGED <<agent, mode, operational_state, stop_event, current_execution_id,
                   current_workflow_name, workflow_thread, listener, nthreads,
                   monitor_vars, epictopic>>

\* env.step(), line 640.
simulation_step(t) ==
    /\ At(t, "env_step")
    /\ IF thr[t].sim.pc = "start"
       THEN \* execute() up to its first yield: get_next_run_number, initialize_state
            \/ /\ mon_run_number' = mon_run_number + 1
               /\ Goto(t, [thr[t] EXCEPT !.pc = "on_simulation_step",
                              !.sim = WaitAt([thr[t].sim EXCEPT !.run_id = mon_run_number + 1],
                                             "no_beam_not_ready")])
               /\ UNCHANGED epictopic
            \/ \* the Monitor cannot be reached: the call raises out of env.step()
               /\ Goto(t, [thr[t] EXCEPT !.pc = "except"])
               /\ UNCHANGED <<mon_run_number, epictopic>>
       ELSE /\ epictopic' = epictopic \o Published(thr[t].sim, thr[t].execution_id)
            /\ Goto(t, [thr[t] EXCEPT !.pc = "on_simulation_step",
                                      !.sim = env_step(thr[t].sim, thr[t].cfg)])
            /\ UNCHANGED mon_run_number
    /\ UNCHANGED <<agent, mode, operational_state, stop_event, current_execution_id,
                   current_workflow_name, workflow_thread, listener, nthreads,
                   mon_next_id, mon_defs, mon_execs, patches>>

\* run_workflow, line 316: the status is set to completed whenever
\* _execute_workflow returns.
update_completed(t) ==
    /\ At(t, "update_completed")
    /\ update_execution_status(thr[t].execution_id, "completed")
    /\ Goto(t, [thr[t] EXCEPT !.pc = IF mode = "persistent" THEN "after_run_workflow"
                                                            ELSE "main_finally"])
    /\ UNCHANGED <<agent, mode, operational_state, stop_event, current_execution_id,
                   current_workflow_name, workflow_thread, listener, nthreads,
                   mon_next_id, mon_run_number, mon_defs, mon_execs, epictopic>>

\* _run_workflow_thread, lines 798-809.
after_run_workflow(t) ==
    /\ At(t, "after_run_workflow")
    /\ IF stop_event
       THEN update_execution_status(thr[t].execution_id, "terminated")
       ELSE UNCHANGED patches
    /\ Goto(t, [thr[t] EXCEPT !.pc = "finally"])
    /\ UNCHANGED <<agent, mode, operational_state, stop_event, current_execution_id,
                   current_workflow_name, workflow_thread, listener, nthreads,
                   mon_next_id, mon_run_number, mon_defs, mon_execs, epictopic>>

\* except Exception: lines 811-818 of _run_workflow_thread, lines 939-941 of main.
except_handler(t) ==
    /\ At(t, "except")
    /\ IF mode = "persistent"
       THEN /\ IF current_execution_id # 0
               THEN update_execution_status(current_execution_id, "failed")
               ELSE UNCHANGED patches
            /\ Goto(t, [thr[t] EXCEPT !.pc = "finally"])
       ELSE \* runner.logger.error(...); sys.exit(1)
            /\ UNCHANGED patches
            /\ Goto(t, [thr[t] EXCEPT !.pc = "main_finally"])
    /\ UNCHANGED <<agent, mode, operational_state, stop_event, current_execution_id,
                   current_workflow_name, workflow_thread, listener, nthreads,
                   mon_next_id, mon_run_number, mon_defs, mon_execs, epictopic>>

\* finally: lines 821-823.
finally_clear(t) ==
    /\ At(t, "finally")
    /\ current_execution_id' = 0
    /\ current_workflow_name' = "none"
    /\ workflow_thread' = 0
    /\ Goto(t, [thr[t] EXCEPT !.pc = "set_ready"])
    /\ UNCHANGED <<agent, mode, operational_state, stop_event, listener, nthreads,
                   monitor_vars, epictopic>>

\* finally: self.set_ready(), line 824; the thread ends.
finally_set_ready(t) ==
    /\ At(t, "set_ready")
    /\ operational_state' = "READY"
    /\ Goto(t, DeadThread)
    /\ UNCHANGED <<agent, mode, stop_event, current_execution_id, current_workflow_name,
                   workflow_thread, listener, nthreads, monitor_vars, epictopic>>

\* main, lines 942-943: finally: runner.set_ready(); the process ends.
main_finally(t) ==
    /\ At(t, "main_finally")
    /\ operational_state' = "READY"
    /\ Goto(t, DeadThread)
    /\ UNCHANGED <<agent, mode, stop_event, current_execution_id, current_workflow_name,
                   workflow_thread, listener, nthreads, monitor_vars, epictopic>>

ThreadStep(t) ==
    \/ generate_execution_id(t)
    \/ register_workflow_definition(t)
    \/ create_execution_record(t)
    \/ execute_workflow(t)
    \/ simulation_loop(t)
    \/ simulation_step(t)
    \/ update_completed(t)
    \/ after_run_workflow(t)
    \/ except_handler(t)
    \/ finally_clear(t)
    \/ finally_set_ready(t)
    \/ main_finally(t)

----------------------------------------------------------------------------
(* Workflow Runner: the broker listener thread (persistent mode) *)

\* Frames that can arrive on /queue/workflow_control.
RunnerFrames ==
    [msg_type : {"run_workflow"}, namespace : {Namespace, OtherNamespace},
     workflow_name : {WorkflowName, "none"}, request : MessageRequests, execution_id : {0}]
    \cup
    [msg_type : {"stop_workflow"}, namespace : {Namespace, OtherNamespace},
     workflow_name : {"none"}, request : {[code |-> "daq_executor", cfg |-> DefaultConfig]},
     execution_id : 0..MaxRuns]
    \cup
    [msg_type : {"status_request", "heartbeat"}, namespace : {Namespace, OtherNamespace},
     workflow_name : {"none"}, request : {[code |-> "daq_executor", cfg |-> DefaultConfig]},
     execution_id : {0}]

\* BaseAgent.log_received_message: the namespace filter; TRUE when the frame is
\* filtered, that is when it returns (None, None).
Filtered(frame) == frame.namespace # Namespace

\* on_message, lines 733-735: if message_data is None: return
MessageDropped(frame) == Filtered(frame)

\* _handle_run_workflow without its check of the operational state.
AlreadyRunning_Unchecked == FALSE

\* _handle_run_workflow, line 749: the runner is already running a workflow.
AlreadyRunning == operational_state = "PROCESSING"

\* _handle_run_workflow without its stop_event.clear(): the flag keeps its value.
stop_event_clear_Skipped == stop_event

\* _handle_run_workflow, line 768: self.stop_event.clear(); the value of the flag
\* after it.
stop_event_clear == FALSE

\* _handle_run_workflow
handle_run_workflow(frame) ==
    IF AlreadyRunning \/ frame.workflow_name = "none"
    THEN UNCHANGED vars
    ELSE /\ nthreads < MaxRuns
         /\ stop_event' = stop_event_clear
         /\ operational_state' = "PROCESSING"
         /\ current_workflow_name' = frame.workflow_name
         /\ nthreads' = nthreads + 1
         /\ workflow_thread' = nthreads + 1
         /\ Goto(nthreads + 1, StartedThread(frame.request))
         /\ epictopic' = <<>>
         /\ patches' = <<>>
         /\ UNCHANGED <<agent, mode, current_execution_id, listener, mon_next_id,
                        mon_run_number, mon_defs, mon_execs>>

\* _handle_stop_workflow without its check of the requested execution id.
StopAccepted_AnyExecution(frame) == operational_state = "PROCESSING"

\* _handle_stop_workflow, lines 828-839: the checks made before the flag is set.
StopAccepted(frame) ==
    /\ operational_state = "PROCESSING"
    /\ ~(frame.execution_id # 0 /\ frame.execution_id # current_execution_id)

\* _handle_stop_workflow up to line 844
handle_stop_workflow(frame) ==
    /\ listener' = IF StopAccepted(frame) THEN "stop_event_set" ELSE "idle"
    /\ UNCHANGED <<agent, mode, operational_state, stop_event, current_execution_id,
                   current_workflow_name, workflow_thread, nthreads, thr, monitor_vars,
                   epictopic>>

\* _handle_stop_workflow, line 845: self.stop_event.set()
stop_event_set ==
    /\ agent = "runner"
    /\ UNCHANGED <<fp_vars, call_vars, other_vars>>
    /\ listener = "stop_event_set"
    /\ stop_event' = TRUE
    /\ listener' = "idle"
    /\ UNCHANGED <<agent, mode, operational_state, current_execution_id,
                   current_workflow_name, workflow_thread, nthreads, thr, monitor_vars,
                   epictopic>>

\* WorkflowRunner.on_message
runner_on_message(frame) ==
    /\ agent = "runner"
    /\ mode = "persistent"
    /\ listener = "idle"
    /\ UNCHANGED <<fp_vars, call_vars, other_vars>>
    /\ IF MessageDropped(frame) THEN UNCHANGED vars
       ELSE IF frame.msg_type = "run_workflow" THEN handle_run_workflow(frame)
       ELSE IF frame.msg_type = "stop_workflow" THEN handle_stop_workflow(frame)
       ELSE \* status_request is logged, any other type is ignored
            UNCHANGED vars

RunnerThread(t) == agent = "runner" /\ ThreadStep(t) /\ UNCHANGED <<fp_vars, call_vars, other_vars>>

NextRunner ==
    \/ \E frame \in RunnerFrames : runner_on_message(frame)
    \/ stop_event_set
    \/ \E t \in Threads : RunnerThread(t)

----------------------------------------------------------------------------
(* Fast-Processing agent: example_agents/fast_processing_agent.py *)

RunIds == 1..MaxRunId

\* The workflow parameters of an execution, as far as the agent reads them:
\* whether the dict is empty, fast_processing.slices_per_sample if present, and
\* the execution whose parameter_values they are (0 for the empty dict).
EmptyParams == [empty |-> TRUE, has_slices_per_sample |-> FALSE, slices_per_sample |-> 0,
                execution_id |-> 0]
LoadedParams(execution_id, n) ==
    [empty |-> FALSE, has_slices_per_sample |-> TRUE, slices_per_sample |-> n,
     execution_id |-> execution_id]

\* _fetch_workflow_parameters(execution_id): what the GET of the execution can give.
FetchResults(execution_id) ==
    {EmptyParams} \cup { LoadedParams(execution_id, n) : n \in 0..MaxSlicesPerSample }

\* __init__, lines 53-60
InitialStats ==
    [tf_files_received |-> 0, slices_created |-> 0, slices_sent |-> 0,
     results_keys |-> TRUE, results_received |-> 0, results_done |-> 0,
     results_failed |-> 0]

\* _update_run_context, lines 108-112: the dict assigned on a new run has no
\* results_received, results_done or results_failed key.
ResetStats ==
    [tf_files_received |-> 0, slices_created |-> 0, slices_sent |-> 0,
     results_keys |-> FALSE, results_received |-> 0, results_done |-> 0,
     results_failed |-> 0]

\* Frames that can arrive on /topic/epictopic and on the results queue.
\* run_id = 0: the message has no run_id key (create_tf_message of the
\* Fast-Monitoring agent names the run run_number, the key a
\* tf_file_registered carries); slice_id = -1: the result carries no nested
\* result.
FpLifecycleTypes == {"run_imminent", "start_run", "pause_run", "resume_run", "end_run",
                     "stf_gen"}
FpFrames ==
    [msg_type : FpLifecycleTypes, namespace : {Namespace, OtherNamespace},
     run_id : RunIds, stf : {0}, state : {"none"}, slice_id : {-1}, processed : {FALSE}]
    \cup
    { f \in [msg_type : {"tf_file_registered"}, namespace : {Namespace, OtherNamespace},
              run_id : 0..MaxRunId, run_number : RunIds, stf : {1}, state : {"none"},
              slice_id : {-1}, processed : {FALSE}] :
        f.run_id # 0 => f.run_number = f.run_id }
    \cup
    { f \in [msg_type : {"slice_result"}, namespace : {Namespace, OtherNamespace},
              run_id : 0..MaxRunId, stf : {0}, state : {"none", "done", "failed"},
              slice_id : {-1, 0}, processed : BOOLEAN] :
        /\ f.processed => (f.slice_id # -1 /\ f.state = "none")
        /\ f.state = "none" => f.processed }

\* The execution_id carried by an epictopic message of a run (0 = absent):
\* the results of the workers carry none at top level.
ExecutionIdOf(frame) == IF frame.msg_type = "slice_result" THEN 0 ELSE frame.run_id

\* on_message without the return at lines 65-66.
FpMessageDropped_Never(frame) == FALSE

\* on_message, lines 65-66: if message_data is None: return
FpMessageDropped(frame) == Filtered(frame)

\* One call of call_monitor_api, as the Monitor sees it.
MonitorCall(method, path, key, what, n) ==
    [method |-> method, path |-> path, key |-> key, what |-> what, n |-> n]

\* _log_system_event
log_system_event(run_id, event_type) ==
    <<MonitorCall("POST", "system-state-events", run_id, event_type, 0)>>

\* _update_run_state
update_run_state(run_id, what) ==
    <<MonitorCall("PATCH", "run-states", run_id, what, 0)>>

\* _update_run_context, lines 114-117: the parameters are fetched.
FetchesParameters(frame) ==
    /\ ExecutionIdOf(frame) # 0
    /\ ExecutionIdOf(frame) # fp_current_execution_id
    /\ fp_workflow_params.empty

\* _update_run_context: the run context after the message, given what a fetch
\* of the workflow parameters would return.
update_run_context(frame, fetched) ==
    LET run_changed == frame.run_id # 0 /\ frame.run_id # fp_current_run_id
        execution_id == ExecutionIdOf(frame)
        exec_changed == execution_id # 0 /\ execution_id # fp_current_execution_id
        fetch == FetchesParameters(frame)
    IN  [ current_run_id |-> IF run_changed THEN frame.run_id ELSE fp_current_run_id,
          tf_files_received |-> IF run_changed THEN 0 ELSE fp_tf_files_received,
          slices_created |-> IF run_changed THEN 0 ELSE fp_slices_created,
          stats |-> IF run_changed THEN ResetStats ELSE fp_stats,
          current_execution_id |->
              IF exec_changed THEN execution_id ELSE fp_current_execution_id,
          workflow_params |-> IF fetch THEN fetched ELSE fp_workflow_params,
          calls |-> IF fetch
                    THEN <<MonitorCall("GET", "workflow-executions", execution_id, "", 0)>>
                    ELSE <<>> ]

\* The assignments every handler ends with: the agent's fields, and the Monitor
\* calls and broker messages of this message.
FpResult(ctx, op_state, calls, workers, slices) ==
    /\ fp_operational_state' = op_state
    /\ fp_current_run_id' = ctx.current_run_id
    /\ fp_current_execution_id' = ctx.current_execution_id
    /\ fp_workflow_params' = ctx.workflow_params
    /\ fp_tf_files_received' = ctx.tf_files_received
    /\ fp_slices_created' = ctx.slices_created
    /\ fp_stats' = ctx.stats
    /\ fp_calls' = ctx.calls \o calls
    /\ panda_workers' = workers
    /\ panda_slices' = slices

\* The message of handle_run_imminent (lines 154-167) and of handle_end_run
\* (lines 289-302): top-level msg_type, run_id, created_at and content.
WorkerBroadcast(msg_type, frame, ctx) ==
    [ msg_type |-> msg_type,
      run_id |-> ctx.current_run_id,
      content |-> [namespace |-> frame.namespace, run_id |-> frame.run_id,
                   execution_id |-> ctx.current_execution_id],
      headers |-> [msg_type |-> msg_type, namespace |-> frame.namespace,
                   run_id |-> ctx.current_run_id] ]

\* What the environment answers while one message is handled: the slice ids
\* whose POST /tf-slices/ the Monitor refuses, whether the broker takes what is
\* sent, and whether the GET and the PATCH of a read-modify-write succeed.
AllSucceed == [failed |-> {}, send_ok |-> TRUE, get_ok |-> TRUE, patch_ok |-> TRUE]

\* The slices whose POST /tf-slices/ the Monitor may refuse while one STF sample
\* is handled: none, the first one, or all of them.
FailureSets(num_slices) == { {}, {0}, 0..(num_slices - 1) }

\* handle_run_imminent
handle_run_imminent(frame, ctx, outcome) ==
    /\ FpResult(ctx, fp_operational_state,
                log_system_event(ctx.current_run_id, "run_imminent"),
                IF outcome.send_ok THEN <<WorkerBroadcast("run_imminent", frame, ctx)>>
                ELSE <<>>,
                <<>>)
    /\ UNCHANGED <<mon_tf_slices, mon_run_states>>

\* _update_run_state without its try/except: a PATCH that fails raises.
RunStatePatchRaises_Uncaught(outcome) == ~outcome.patch_ok

\* _update_run_state, lines 399-409: an error of the PATCH is caught and
\* logged, nothing is raised to the handler.
RunStatePatchRaises(outcome) == FALSE

\* A handler left by an exception in its _update_run_state: on_message (lines
\* 86-90) logs the error; the fields are as _update_run_context and the
\* statements before the call left them.
RaisedInUpdateRunState(ctx, op_state, what) ==
    /\ FpResult(ctx, op_state, update_run_state(ctx.current_run_id, what), <<>>, <<>>)
    /\ UNCHANGED <<mon_tf_slices, mon_run_states>>

\* handle_start_run
handle_start_run(frame, ctx, outcome) ==
    IF RunStatePatchRaises(outcome)
    THEN RaisedInUpdateRunState(ctx, "PROCESSING", "physics")
    ELSE /\ FpResult(ctx, "PROCESSING",
                     update_run_state(ctx.current_run_id, "physics")
                       \o log_system_event(ctx.current_run_id, "start_run"),
                     <<>>, <<>>)
         /\ UNCHANGED <<mon_tf_slices, mon_run_states>>

\* handle_pause_run
handle_pause_run(frame, ctx) ==
    /\ FpResult(ctx, fp_operational_state,
                update_run_state(ctx.current_run_id, "standby")
                  \o log_system_event(ctx.current_run_id, "pause_run"),
                <<>>, <<>>)
    /\ UNCHANGED <<mon_tf_slices, mon_run_states>>

\* handle_resume_run
handle_resume_run(frame, ctx) ==
    /\ FpResult(ctx, fp_operational_state,
                update_run_state(ctx.current_run_id, "physics")
                  \o log_system_event(ctx.current_run_id, "resume_run"),
                <<>>, <<>>)
    /\ UNCHANGED <<mon_tf_slices, mon_run_states>>

\* handle_end_run
handle_end_run(frame, ctx, outcome) ==
    IF RunStatePatchRaises(outcome)
    THEN RaisedInUpdateRunState(ctx, fp_operational_state, "completed")
    ELSE /\ FpResult([ctx EXCEPT !.current_run_id = 0, !.current_execution_id = 0,
                                 !.workflow_params = EmptyParams],
                     "READY",
                     update_run_state(ctx.current_run_id, "completed")
                       \o log_system_event(ctx.current_run_id, "end_run"),
                     IF outcome.send_ok THEN <<WorkerBroadcast("end_run", frame, ctx)>>
                     ELSE <<>>,
                     <<>>)
         /\ UNCHANGED <<mon_tf_slices, mon_run_states>>

\* _create_tf_slices, lines 440-466: the slice data of the num_slices slices of
\* one STF sample (num_slices >= 1), in the order of the loop.
create_tf_slices(stf_filename, num_slices, run_id, execution_id) ==
    LET tfs_per_slice == tfs_per_stf \div num_slices
    IN  [ k \in 1..num_slices |->
            LET i == k - 1
                tf_first == i * tfs_per_slice
                tf_last == IF i < num_slices - 1
                           THEN (i + 1) * tfs_per_slice - 1
                           ELSE tfs_per_stf - 1
            IN  [ slice_id |-> i, tf_first |-> tf_first, tf_last |-> tf_last,
                  tf_count |-> tf_last - tf_first + 1,
                  stf_filename |-> stf_filename, run_number |-> run_id,
                  status |-> "queued", execution_id |-> execution_id ] ]

\* _send_slice_to_queue, lines 495-523: top-level msg_type, run_id, created_at
\* and content; the headers carry no namespace.
SliceMessage(slice_data, ctx) ==
    [ msg_type |-> "slice",
      run_id |-> ctx.current_run_id,
      content |-> [run_id |-> ctx.current_run_id,
                   execution_id |-> ctx.current_execution_id,
                   filename |-> slice_data.stf_filename,
                   slice_id |-> slice_data.slice_id,
                   start |-> slice_data.tf_first,
                   end |-> slice_data.tf_last,
                   tf_count |-> slice_data.tf_count,
                   state |-> "queued"],
      headers |-> [msg_type |-> "slice", run_id |-> ctx.current_run_id] ]

\* The tf-slices row the Monitor stores for a POST of slice_data.
SliceRow(slice_data) ==
    [ run_number |-> slice_data.run_number, slice_id |-> slice_data.slice_id,
      stf_filename |-> slice_data.stf_filename, status |-> slice_data.status ]

\* handle_tf_file_registered, lines 212-213
NumSlices(ctx) ==
    IF ctx.workflow_params.has_slices_per_sample
    THEN ctx.workflow_params.slices_per_sample
    ELSE default_slices_per_sample

\* _update_run_state_slices that PATCHes the counts of this sample alone.
RunStateUpdate_Overwrites(current, new_slices_count) ==
    [stf_samples_received |-> 1,
     slices_created |-> new_slices_count,
     slices_queued |-> new_slices_count]

\* _update_run_state_slices, lines 417-422: update_data
RunStateUpdate(current, new_slices_count) ==
    [stf_samples_received |-> current.stf_samples_received + 1,
     slices_created |-> current.slices_created + new_slices_count,
     slices_queued |-> current.slices_queued + new_slices_count]

\* The run-states row GET /run-states/{run_id}/ returns; there is none for
\* run_id = None.
RunStateExists(run_id) == run_id \in RunIds

\* handle_tf_file_registered up to line 206: the file is counted.
TfFileCounted(ctx) ==
    [ctx EXCEPT !.tf_files_received = @ + 1, !.stats.tf_files_received = @ + 1]

\* handle_tf_file_registered when slices_per_sample is 0: ZeroDivisionError at
\* line 442, caught by on_message.
tf_file_registered_zero_division(ctx) ==
    /\ FpResult(TfFileCounted(ctx), fp_operational_state, <<>>, <<>>, <<>>)
    /\ UNCHANGED <<mon_tf_slices, mon_run_states>>

\* _create_tf_slices that appends every slice to the list it returns.
ResultReturned_Always(slice_data, outcome) == TRUE

\* _create_tf_slices, lines 468-475: the POST returned a result, and the slice
\* is counted and appended to the list of slices to send.
ResultReturned(slice_data, outcome) == slice_data.slice_id \notin outcome.failed

\* handle_tf_file_registered, with _create_tf_slices, _send_slice_to_queue and
\* _update_run_state_slices, for slices_per_sample >= 1
tf_file_registered(frame, ctx, outcome) ==
    LET num_slices == NumSlices(ctx)
        run_id == ctx.current_run_id
        all == create_tf_slices(frame.stf, num_slices, run_id, ctx.current_execution_id)
        Created(slice_data) == slice_data.slice_id \notin outcome.failed
        Returned(slice_data) == ResultReturned(slice_data, outcome)
        stored == SelectSeq(all, Created)
        slices == SelectSeq(all, Returned)
        posts == [k \in 1..num_slices |->
                    MonitorCall("POST", "tf-slices", run_id, "queued", all[k].slice_id)]
        sent == IF outcome.send_ok THEN Len(slices) ELSE 0
        counted == [TfFileCounted(ctx) EXCEPT
                        !.slices_created = @ + Len(slices),
                        !.stats.slices_created = @ + Len(slices),
                        !.stats.slices_sent = @ + sent]
        got == outcome.get_ok /\ RunStateExists(run_id)
        update_data == RunStateUpdate(mon_run_states[run_id], Len(slices))
        update_run_state_slices ==
            <<MonitorCall("GET", "run-states", run_id, "", 0)>>
            \o IF got
               THEN <<MonitorCall("PATCH", "run-states", run_id, "slices",
                                  update_data.slices_created)>>
               ELSE <<>>
    IN  /\ FpResult(counted, fp_operational_state,
                    posts \o update_run_state_slices
                      \o log_system_event(run_id, "tf_file_processed"),
                    <<>>,
                    IF outcome.send_ok
                    THEN [k \in 1..Len(slices) |-> SliceMessage(slices[k], ctx)]
                    ELSE <<>>)
        /\ mon_tf_slices' =
             mon_tf_slices \o [k \in 1..Len(stored) |-> SliceRow(stored[k])]
        /\ mon_run_states' =
             IF got /\ outcome.patch_ok
             THEN [mon_run_states EXCEPT ![run_id] = update_data]
             ELSE mon_run_states

handle_tf_file_registered(frame, ctx, outcome) ==
    IF NumSlices(ctx) = 0
    THEN tf_file_registered_zero_division(ctx)
    ELSE tf_file_registered(frame, ctx, outcome)

\* handle_slice_result, line 346: the result counts as done.
ResultDone(frame) ==
    frame.state = "done" \/ (frame.slice_id # -1 /\ frame.processed)

\* The rows GET /tf-slices/?run_number=..&slice_id=.. returns, by database id.
SlicesFound(run_id, slice_id) ==
    { k \in 1..Len(mon_tf_slices) :
        /\ mon_tf_slices[k].run_number = run_id
        /\ mon_tf_slices[k].slice_id = slice_id }

\* _update_tfslice_from_result without its return at lines 572-574.
HasSliceId_Unchecked(frame) == TRUE

\* _update_tfslice_from_result, lines 561-574: a slice_id is found in the
\* nested result (the frames without a nested result dict have slice_id -1).
HasSliceId(frame) == frame.slice_id # -1

\* handle_slice_result, with _update_tfslice_from_result
handle_slice_result(frame, ctx, outcome) ==
    IF ~ctx.stats.results_keys
    THEN \* KeyError at line 328, caught by on_message
         /\ FpResult(ctx, fp_operational_state, <<>>, <<>>, <<>>)
         /\ UNCHANGED <<mon_tf_slices, mon_run_states>>
    ELSE    LET has_inner == HasSliceId(frame)
                done == ResultDone(frame)
                counted == [ctx EXCEPT
                              !.stats.results_received = @ + 1,
                              !.stats.results_done = IF done THEN @ + 1 ELSE @,
                              !.stats.results_failed = IF done THEN @ ELSE @ + 1]
                slice_status == IF done THEN "completed" ELSE "failed"
                found == SlicesFound(frame.run_id, frame.slice_id)
                patched == has_inner /\ outcome.get_ok /\ found # {}
                db_id == CHOOSE k \in found : \A other \in found : k <= other
                update_tfslice_from_result ==
                    IF ~has_inner THEN <<>>
                    ELSE <<MonitorCall("GET", "tf-slices", frame.run_id, "", frame.slice_id)>>
                         \o IF patched
                            THEN <<MonitorCall("PATCH", "tf-slices", db_id, slice_status, 0)>>
                            ELSE <<>>
            IN  /\ FpResult(counted, fp_operational_state,
                            update_tfslice_from_result
                              \o log_system_event(ctx.current_run_id, "slice_result"),
                            <<>>, <<>>)
                /\ mon_tf_slices' =
                     IF patched /\ outcome.patch_ok
                     THEN [mon_tf_slices EXCEPT ![db_id].status = slice_status]
                     ELSE mon_tf_slices
                /\ UNCHANGED mon_run_states

\* What _update_run_context can be given by the Monitor for this message.
FetchChoices(frame) ==
    IF FetchesParameters(frame) THEN FetchResults(ExecutionIdOf(frame)) ELSE {EmptyParams}

\* The answers of the environment that make a difference to this message.
Outcomes(frame, ctx) ==
    CASE frame.msg_type = "run_imminent" ->
             { [AllSucceed EXCEPT !.send_ok = b] : b \in BOOLEAN }
      [] frame.msg_type = "start_run" ->
             { [AllSucceed EXCEPT !.patch_ok = b] : b \in BOOLEAN }
      [] frame.msg_type = "end_run" ->
             { [AllSucceed EXCEPT !.send_ok = b, !.patch_ok = c] : b, c \in BOOLEAN }
      [] frame.msg_type = "tf_file_registered" /\ NumSlices(ctx) # 0 ->
             { o \in [failed : FailureSets(NumSlices(ctx)), send_ok : BOOLEAN,
                      get_ok : BOOLEAN, patch_ok : BOOLEAN] :
                 o.patch_ok => o.get_ok }
      [] frame.msg_type = "slice_result" /\ ctx.stats.results_keys ->
             { o \in [failed : {{}}, send_ok : {TRUE}, get_ok : BOOLEAN,
                      patch_ok : BOOLEAN] :
                 o.patch_ok => o.get_ok }
      [] OTHER -> {AllSucceed}

\* on_message from line 69 on: the message is handled in the run context
\* _update_run_context leaves, with these answers of the environment.
fp_handle(frame, fetched, outcome) ==
    LET ctx == update_run_context(frame, fetched)
    IN  CASE frame.msg_type = "run_imminent" -> handle_run_imminent(frame, ctx, outcome)
          [] frame.msg_type = "start_run" -> handle_start_run(frame, ctx, outcome)
          [] frame.msg_type = "tf_file_registered" ->
                 handle_tf_file_registered(frame, ctx, outcome)
          [] frame.msg_type = "pause_run" -> handle_pause_run(frame, ctx)
          [] frame.msg_type = "resume_run" -> handle_resume_run(frame, ctx)
          [] frame.msg_type = "end_run" -> handle_end_run(frame, ctx, outcome)
          [] frame.msg_type = "slice_result" -> handle_slice_result(frame, ctx, outcome)
          [] OTHER -> \* "Ignoring message type"
                 /\ FpResult(ctx, fp_operational_state, <<>>, <<>>, <<>>)
                 /\ UNCHANGED <<mon_tf_slices, mon_run_states>>

\* FastProcessingAgent.on_message
fp_on_message(frame) ==
    /\ agent = "fast_processing"
    /\ UNCHANGED <<agent, runner_vars, monitor_vars, epictopic, call_vars, other_vars>>
    /\ IF FpMessageDropped(frame) THEN UNCHANGED fp_vars
       ELSE \E fetched \in FetchChoices(frame) :
                \E outcome \in Outcomes(frame, update_run_context(frame, fetched)) :
                    fp_handle(frame, fetched, outcome)

\* The messages the environment sends to the agent: a tf_file_registered while
\* its run has had fewer than max_files and the Monitor holds fewer than
\* max_rows tf-slices rows, a slice_result while the agent has counted fewer
\* than MaxResults.
Followed(frame, max_files, max_rows) ==
    LET ctx == update_run_context(frame, EmptyParams)
    IN  /\ frame.msg_type = "tf_file_registered" =>
              /\ ctx.tf_files_received < max_files
              /\ Len(mon_tf_slices) < max_rows
              /\ RunStateExists(ctx.current_run_id) =>
                    mon_run_states[ctx.current_run_id].stf_samples_received < max_files
        /\ frame.msg_type = "slice_result" =>
              ctx.stats.results_received < MaxResults

\* The agent among the messages of several runs and of other namespaces.
NextFP ==
    \E frame \in FpFrames :
        Followed(frame, MaxTfFiles, MaxSliceRows) /\ fp_on_message(frame)

\* The agent among the messages of one run of its own namespace.
FpRunFrames ==
    { frame \in FpFrames : frame.namespace = Namespace /\ frame.run_id \in {0, 1} }

NextFPRun ==
    \E frame \in FpRunFrames :
        Followed(frame, MaxRunTfFiles, MaxRunSliceRows) /\ fp_on_message(frame)

\* FastProcessingAgent.__init__; no run-states row has counted anything yet.
InitFPVars ==
    /\ fp_operational_state = "READY"
    /\ fp_current_run_id = 0
    /\ fp_current_execution_id = 0
    /\ fp_workflow_params = EmptyParams
    /\ fp_tf_files_received = 0
    /\ fp_slices_created = 0
    /\ fp_stats = InitialStats
    /\ mon_tf_slices = <<>>
    /\ mon_run_states = [r \in RunIds |->
                           [stf_samples_received |-> 0, slices_created |-> 0,
                            slices_queued |-> 0]]
    /\ fp_calls = <<>>
    /\ panda_workers = <<>>
    /\ panda_slices = <<>>

----------------------------------------------------------------------------
(* Fast-Monitoring agent: example_agents/example_fastmon_agent.py *)

\* The configuration dictionaries given to FastMonitorAgent: selection_fraction
\* in tenths (0 = 0.0, 1 = 0.1 as in main, 10 = 1.0, 11 = 1.1).
FmConfigs ==
    [selection_fraction : {0, 1, 10, 11}, tf_files_per_stf : 0..MaxTfFilesPerStf,
     tf_sequence_start : {1}]

\* validate_config: TRUE when it raises no ValueError.
validate_config(config) ==
    0 <= config.selection_fraction /\ config.selection_fraction <= 10

\* Frames that arrive on /topic/epictopic. filename = 0: the message has no
\* filename; stf_filename = 0: it has no stf_filename key; run_id = 0: it has
\* neither run_id nor execution_id.
FmFrames ==
    [msg_type : {"stf_ready", "stf_gen", "end_run"}, namespace : {Namespace, OtherNamespace},
     run_id : 0..1, filename : {0, 1}, stf_filename : {0, 1}]

\* simulate_tf_subsamples without its first subsample.
simulate_tf_subsamples_SkipsFirst(stf_file, config) ==
    [i \in 1..(config.tf_files_per_stf - 1) |->
        [tf_filename |-> [base_filename |-> stf_file.filename,
                          sequence_number |-> config.tf_sequence_start + i],
         sequence_number |-> config.tf_sequence_start + i,
         stf_parent |-> stf_file.filename]]

\* simulate_tf_subsamples: tf_files_per_stf subsamples of every STF, named
\* <base>_tf_<sequence_number>.tf; the configuration's selection_fraction is
\* not read.
simulate_tf_subsamples(stf_file, config) ==
    [i \in 1..config.tf_files_per_stf |->
        [tf_filename |-> [base_filename |-> stf_file.filename,
                          sequence_number |-> config.tf_sequence_start + (i - 1)],
         sequence_number |-> config.tf_sequence_start + (i - 1),
         stf_parent |-> stf_file.filename]]

\* record_tf_file: the row the POST of /fastmon-files/ returns.
record_tf_file(tf_metadata) ==
    [stf_file |-> tf_metadata.stf_parent, tf_filename |-> tf_metadata.tf_filename,
     status |-> "registered"]

\* create_tf_message, with the namespace send_message adds; stf_filename is
\* read from the key stf_filename of the STF message (0 = None).
create_tf_message(tf_file, stf_file) ==
    [msg_type |-> "tf_file_registered", namespace |-> Namespace,
     tf_filename |-> tf_file.tf_filename, stf_filename |-> stf_file.stf_filename,
     run_number |-> stf_file.run_id, status |-> tf_file.status]

\* What the calls made for an STF give: the sequence numbers whose POST
\* returned a row, and those among them whose notification was sent.
FmOutcomes(config) ==
    LET numbers == { config.tf_sequence_start + (i - 1) : i \in 1..config.tf_files_per_stf }
    IN  { o \in [posted : SUBSET numbers, sent : SUBSET numbers] : o.sent \subseteq o.posted }

FmAllSucceed(config) ==
    LET numbers == { config.tf_sequence_start + (i - 1) : i \in 1..config.tf_files_per_stf }
    IN  [posted |-> numbers, sent |-> numbers]

\* sample_timeframes
sample_timeframes(message_data, outcome) ==
    LET tf_subsamples == simulate_tf_subsamples(message_data, fm_config)
        recorded == SelectSeq(tf_subsamples,
                              LAMBDA m : m.sequence_number \in outcome.posted)
        notified == SelectSeq(tf_subsamples,
                              LAMBDA m : m.sequence_number \in outcome.sent)
    IN  IF message_data.filename = 0
        THEN /\ fm_processing_stats' =
                    [fm_processing_stats EXCEPT !.total_stf_messages = @ + 1]
             /\ fastmon_files' = <<>>
             /\ fm_sent' = <<>>
        ELSE /\ fm_processing_stats' =
                    [total_stf_messages |-> fm_processing_stats.total_stf_messages + 1,
                     total_tf_files_created |->
                         fm_processing_stats.total_tf_files_created + Len(recorded)]
             /\ fastmon_files' = [k \in 1..Len(recorded) |-> record_tf_file(recorded[k])]
             /\ fm_sent' = [k \in 1..Len(notified) |->
                              create_tf_message(record_tf_file(notified[k]), message_data)]

\* on_message after log_received_message, with the results of its calls.
fm_handle(frame, outcome) ==
    /\ fm_current_execution_id' =
          IF frame.run_id # 0 THEN frame.run_id ELSE fm_current_execution_id
    /\ fm_current_run_id' = IF frame.run_id # 0 THEN frame.run_id ELSE fm_current_run_id
    /\ fm_config' = fm_config
    /\ IF frame.msg_type = "stf_ready"
       THEN sample_timeframes(frame, outcome)
       ELSE \* "Ignoring unknown message type"
            /\ fastmon_files' = <<>>
            /\ fm_sent' = <<>>
            /\ fm_processing_stats' = fm_processing_stats

\* FastMonitorAgent.on_message
fm_on_message(frame) ==
    /\ agent = "fastmon"
    /\ UNCHANGED <<agent, runner_vars, monitor_vars, epictopic, fp_vars, call_vars, conn_vars,
                   uam_vars, cfg_vars>>
    /\ IF Filtered(frame) THEN UNCHANGED fm_vars
       ELSE \E outcome \in FmOutcomes(fm_config) : fm_handle(frame, outcome)

\* The agent among the messages of /topic/epictopic, while it has counted
\* fewer than MaxStfMessages.
NextFastmon ==
    \E frame \in FmFrames :
        /\ fm_processing_stats.total_stf_messages < MaxStfMessages
        /\ fm_on_message(frame)

\* FastMonitorAgent.__init__ with a configuration validate_config accepts.
InitFastmonVars ==
    /\ fm_config \in { config \in FmConfigs : validate_config(config) }
    /\ fm_current_run_id = 0
    /\ fm_current_execution_id = 0
    /\ fm_processing_stats = [total_stf_messages |-> 0, total_tf_files_created |-> 0]
    /\ fastmon_files = <<>>
    /\ fm_sent = <<>>

\* No Fast-Monitoring agent is observed.
NoFastmon ==
    /\ fm_config = [selection_fraction |-> 1, tf_files_per_stf |-> 0, tf_sequence_start |-> 1]
    /\ fm_current_run_id = 0
    /\ fm_current_execution_id = 0
    /\ fm_processing_stats = [total_stf_messages |-> 0, total_tf_files_created |-> 0]
    /\ fastmon_files = <<>>
    /\ fm_sent = <<>>

----------------------------------------------------------------------------
(* Broker connection of a program: the User Agent Manager, ExampleAgent     *)
(* (example_agents/base_agent.py), FastProcessingResultAgent and the         *)
(* WorkflowRunner constructor                                                *)

Programs == {"agent_manager", "example_agent", "result_agent", "workflow_runner"}

\* A retry loop that allows a fourth call.
max_retries_Four(prog) == IF prog = "result_agent" THEN 4 ELSE 1

\* The connect calls a program makes before giving up: max_retries of
\* FastProcessingResultAgent.run; one call in the other programs.
max_retries(prog) == IF prog = "result_agent" THEN 3 ELSE 1

\* FastProcessingResultAgent.run, line 107
retry_delay == 5

\* on_disconnected of the manager, line 170: time.sleep(5)
reconnect_delay == 5

\* The process is alive: run() or the constructor has neither returned nor raised.
ProcessAlive == main_pc \notin {"exited", "raised"}

ConnectEvent(what, n) == [what |-> what, n |-> n]

\* The state is that of no other component.
ConnOnly ==
    /\ agent = "connection"
    /\ UNCHANGED <<agent, runner_vars, monitor_vars, epictopic, fp_vars, call_vars, fm_vars,
                   cfg_vars>>

\* self.conn.connect(..., wait=True) of the initial connection: UserAgentManager
\* .connect from run (which also subscribes), ExampleAgent.run,
\* FastProcessingResultAgent.run and WorkflowRunner.__init__. A failure is
\* retried after retry_delay, raised, or (ExampleAgent) caught by run, which
\* then returns.
initial_connect ==
    /\ ConnOnly
    /\ main_pc = "connect"
    /\ attempt' = attempt + 1
    /\ IF broker_up
       THEN /\ connect_log' = Append(connect_log, ConnectEvent("connected", attempt'))
            /\ is_connected' = TRUE
            /\ mq_connected' = (program # "agent_manager")
            /\ subscribed' = (program = "agent_manager")
            /\ main_pc' = "connected"
       ELSE /\ connect_log' = Append(connect_log, ConnectEvent("connect_failed", attempt'))
            /\ main_pc' = IF attempt' < max_retries(program) THEN "retry_delay"
                          ELSE IF program = "example_agent" THEN "exited"
                          ELSE "raised"
            /\ UNCHANGED <<is_connected, mq_connected, subscribed>>
    /\ UNCHANGED <<program, receiver_pc, running, broker_up, uam_vars>>

\* FastProcessingResultAgent.run, lines 125-127: time.sleep(retry_delay)
retry_sleep ==
    /\ ConnOnly
    /\ main_pc = "retry_delay"
    /\ connect_log' = Append(connect_log, ConnectEvent("sleep", retry_delay))
    /\ main_pc' = "connect"
    /\ UNCHANGED <<program, attempt, receiver_pc, running, mq_connected, is_connected,
                   subscribed, broker_up, uam_vars>>

\* After the connection: the agents subscribe (the manager did so in connect,
\* the runner does not subscribe in its constructor) and the main loop is
\* entered (the runner's constructor returns). An agent whose connection is
\* already lost gets an exception from subscribe, and its run returns.
enter_main_loop ==
    /\ ConnOnly
    /\ main_pc = "connected"
    /\ IF program \in {"example_agent", "result_agent"}
       THEN IF is_connected
            THEN /\ subscribed' = TRUE
                 /\ connect_log' = connect_log \o <<ConnectEvent("subscribe", 1),
                                                    ConnectEvent("main_loop", 0)>>
                 /\ main_pc' = "loop"
            ELSE /\ subscribed' = FALSE
                 /\ connect_log' = connect_log
                 /\ main_pc' = "exited"
       ELSE /\ subscribed' = subscribed
            /\ connect_log' = Append(connect_log, ConnectEvent("main_loop", 0))
            /\ main_pc' = "loop"
    /\ UNCHANGED <<program, attempt, receiver_pc, running, mq_connected, is_connected,
                   broker_up, uam_vars>>

\* UserAgentManager._signal_handler: SIGINT or SIGTERM is delivered.
signal_handler ==
    /\ ConnOnly
    /\ program = "agent_manager"
    /\ ProcessAlive
    /\ running
    /\ running' = FALSE
    /\ UNCHANGED <<program, main_pc, attempt, receiver_pc, mq_connected, is_connected,
                   subscribed, broker_up, connect_log, uam_vars>>

\* UserAgentManager.run, lines 442-456: the loop condition is false;
\* disconnect() (lines 131-134: conn.disconnect() if the connection is up)
\* returns. The receiver thread is left where it is.
main_loop_exit ==
    /\ ConnOnly
    /\ program = "agent_manager"
    /\ main_pc = "loop"
    /\ ~running
    /\ main_pc' = "returned"
    /\ is_connected' = FALSE
    /\ subscribed' = FALSE
    /\ UNCHANGED <<program, attempt, receiver_pc, running, mq_connected, broker_up,
                   connect_log, uam_vars>>

\* main, line 475: manager.run() has returned and main returns; the process
\* ends, and its threads and its connection with it.
process_exit ==
    /\ ConnOnly
    /\ program = "agent_manager"
    /\ main_pc = "returned"
    /\ main_pc' = "exited"
    /\ is_connected' = FALSE
    /\ subscribed' = FALSE
    /\ receiver_pc' = "idle"
    /\ UNCHANGED <<program, attempt, running, mq_connected, broker_up, connect_log, uam_vars>>

\* The connection to the broker is lost: stomp calls on_disconnected in the
\* receiver thread.
connection_lost ==
    /\ ConnOnly
    /\ program \in {"agent_manager", "example_agent"}
    /\ ProcessAlive
    /\ is_connected
    /\ receiver_pc = "idle"
    /\ is_connected' = FALSE
    /\ subscribed' = FALSE
    /\ receiver_pc' = "on_disconnected"
    /\ UNCHANGED <<program, main_pc, attempt, running, mq_connected, broker_up, connect_log,
                   uam_vars>>

\* on_disconnected up to its sleep: UserAgentManager.on_disconnected, lines
\* 168-170, and ExampleAgent.on_disconnected, lines 208-213 (which only marks
\* the agent disconnected and sends a heartbeat).
on_disconnected ==
    /\ ConnOnly
    /\ ProcessAlive
    /\ receiver_pc = "on_disconnected"
    /\ IF program = "agent_manager"
       THEN /\ receiver_pc' = IF running THEN "reconnect_delay" ELSE "idle"
            /\ UNCHANGED mq_connected
       ELSE /\ receiver_pc' = "idle"
            /\ mq_connected' = FALSE
    /\ UNCHANGED <<program, main_pc, attempt, running, is_connected, subscribed, broker_up,
                   connect_log, uam_vars>>

\* UserAgentManager.on_disconnected, lines 171-174, after time.sleep(5):
\* self.connect(), whose failure is logged.
reconnect ==
    /\ ConnOnly
    /\ ProcessAlive
    /\ receiver_pc = "reconnect_delay"
    /\ receiver_pc' = "idle"
    /\ is_connected' = broker_up
    /\ subscribed' = broker_up
    /\ UNCHANGED <<program, main_pc, attempt, running, mq_connected, broker_up, connect_log,
                   uam_vars>>

\* The broker stops or starts accepting connections.
broker_changes ==
    /\ ConnOnly
    /\ ProcessAlive
    /\ ~is_connected
    /\ broker_up' = ~broker_up
    /\ UNCHANGED <<program, main_pc, attempt, receiver_pc, running, mq_connected, is_connected,
                   subscribed, connect_log, uam_vars>>

----------------------------------------------------------------------------
(* User Agent Manager: the commands of the control queue *)

\* AGENT_PROGRAM_MAP, lines 37-42
AGENT_PROGRAM_MAP ==
    [agent_name \in {"data", "processing", "fastmon", "fast_processing"} |->
        CASE agent_name = "data" -> "example-data-agent"
          [] agent_name = "processing" -> "example-processing-agent"
          [] agent_name = "fastmon" -> "example-fastmon-agent"
          [] agent_name = "fast_processing" -> "fast-processing-agent"]

\* The [agents] tables with enabled = true of the configs the manager is given,
\* in file order; "custom" is an agent without a program mapping.
UamConfigs ==
    { <<>>, <<"fastmon">>, <<"fast_processing", "fastmon">>, <<"custom", "data">> }

\* self.config is None
NoConfig == <<"none">>

\* get_enabled_agents
get_enabled_agents(config) ==
    IF config = NoConfig THEN <<>>
    ELSE LET mapped == SelectSeq(config, LAMBDA agent_name : agent_name \in DOMAIN AGENT_PROGRAM_MAP)
         IN  [k \in 1..Len(mapped) |-> AGENT_PROGRAM_MAP[mapped[k]]]

SupervisorCall(cmd, program_name) == [cmd |-> cmd, program |-> program_name]

\* What the environment answers during one start_testbed: load_config finds
\* the file, does not find it, or raises on its contents; agents.supervisord.conf
\* exists or not; supervisorctl status says supervisord is not running (return
\* code 4) or anything else; supervisord starts or not; supervisorctl start
\* succeeds or not for workflow-runner and for each agent program.
StartOutcomes ==
    { o \in [load : {"ok", "not_found", "raise"}, conf_exists : BOOLEAN, status_4 : BOOLEAN,
              supervisord_started : BOOLEAN, runner_started : BOOLEAN,
              agents_started : BOOLEAN] :
        /\ o.load = "raise" =>
              (o.conf_exists /\ ~o.status_4 /\ o.supervisord_started /\ o.runner_started
               /\ o.agents_started)
        /\ ~o.conf_exists => (~o.status_4 /\ o.supervisord_started /\ o.runner_started
                              /\ o.agents_started)
        /\ ~o.status_4 => o.supervisord_started
        /\ ~o.supervisord_started => (o.runner_started /\ o.agents_started)
        /\ ~o.runner_started => o.agents_started }

\* _ensure_supervisord: its calls and its result.
ensure_supervisord(o) ==
    IF ~o.conf_exists THEN [calls |-> <<>>, result |-> FALSE]
    ELSE IF o.status_4
         THEN [calls |-> <<SupervisorCall("status", "all"), SupervisorCall("supervisord", "all")>>,
               result |-> o.supervisord_started]
         ELSE [calls |-> <<SupervisorCall("status", "all")>>, result |-> TRUE]

\* handle_start_testbed that goes on when workflow-runner did not start.
RunnerStarted_Unchecked(o) == TRUE

\* handle_start_testbed, line 245: the result of _start_program('workflow-runner')
RunnerStarted(o) == o.runner_started

\* handle_start_testbed
handle_start_testbed(new_config, o) ==
    LET loaded == IF o.load = "ok" THEN new_config ELSE uam_config
        ensured == ensure_supervisord(o)
        enabled_agents == get_enabled_agents(loaded)
        load_call == <<SupervisorCall("load_config", "none")>>
        runner_call == <<SupervisorCall("start", "workflow-runner")>>
        agent_calls == [k \in 1..Len(enabled_agents) |->
                           SupervisorCall("start", enabled_agents[k])]
    IN  IF o.load = "raise"
        THEN /\ supervisor_calls' = load_call
             /\ UNCHANGED <<uam_config, agents_running>>
        ELSE /\ uam_config' = loaded
             /\ IF ~ensured.result
                THEN /\ supervisor_calls' = load_call \o ensured.calls
                     /\ UNCHANGED agents_running
                ELSE IF ~RunnerStarted(o)
                THEN /\ supervisor_calls' = load_call \o ensured.calls \o runner_call
                     /\ UNCHANGED agents_running
                ELSE /\ supervisor_calls' =
                            load_call \o ensured.calls \o runner_call \o agent_calls
                     /\ agents_running' = TRUE

\* on_message of the manager while it is connected and subscribed.
ManagerListens ==
    /\ ConnOnly
    /\ program = "agent_manager"
    /\ ProcessAlive
    /\ is_connected /\ subscribed
    /\ receiver_pc = "idle"

\* on_message with command start_testbed
start_testbed ==
    /\ ManagerListens
    /\ \E new_config \in UamConfigs : \E o \in StartOutcomes :
          handle_start_testbed(new_config, o)
    /\ UNCHANGED conn_vars

\* on_message with command stop_testbed: handle_stop_testbed, whose
\* supervisorctl stop all returns 0 or 4, or fails.
stop_testbed ==
    /\ ManagerListens
    /\ \E stopped \in BOOLEAN :
          agents_running' = IF stopped THEN FALSE ELSE agents_running
    /\ supervisor_calls' = <<SupervisorCall("stop", "all")>>
    /\ UNCHANGED <<conn_vars, uam_config>>

NextConnection ==
    \/ initial_connect
    \/ retry_sleep
    \/ enter_main_loop
    \/ signal_handler
    \/ main_loop_exit
    \/ process_exit
    \/ connection_lost
    \/ on_disconnected
    \/ reconnect
    \/ broker_changes
    \/ start_testbed
    \/ stop_testbed

\* UserAgentManager.__init__ (no SWF_TESTBED_CONFIG in the environment)
InitManagerVars ==
    /\ uam_config = NoConfig
    /\ agents_running = FALSE
    /\ supervisor_calls = <<>>

\* A program about to connect to the broker for the first time.
InitConnectionVars ==
    /\ program \in Programs
    /\ main_pc = "connect"
    /\ attempt = 0
    /\ receiver_pc = "idle"
    /\ running = TRUE
    /\ mq_connected = FALSE
    /\ is_connected = FALSE
    /\ subscribed = FALSE
    /\ broker_up \in BOOLEAN
    /\ connect_log = <<>>

\* No program's connection is observed.
NoConnection ==
    /\ program = "none"
    /\ main_pc = "connect"
    /\ attempt = 0
    /\ receiver_pc = "idle"
    /\ running = TRUE
    /\ mq_connected = FALSE
    /\ is_connected = FALSE
    /\ subscribed = FALSE
    /\ broker_up = TRUE
    /\ connect_log = <<>>

----------------------------------------------------------------------------
(* Workflow Runner: the config passed to the executor (run_workflow,         *)
(* _load_workflow_config)                                                    *)

\* The sections and keys of the TOML files. Every file gives its keys a value of
\* its own, so that a key of the config tells where it came from.
Sections == {"workflow", "daq_state_machine"}
Keys == {"stf_count", "stf_interval"}
Values == {"main", "include1", "include2", "testbed", "param"}
NoKey == "nokey"

\* A section of a TOML file: absent, or a table of keys.
NoSection == [present |-> FALSE, keys |-> [k \in Keys |-> NoKey]]
Section(keys, value) ==
    [present |-> TRUE, keys |-> [k \in Keys |-> IF k \in keys THEN value ELSE NoKey]]

\* The main config files: [workflow] with its own keys, and possibly another section.
MainConfigs ==
    { [s \in Sections |-> IF s = "workflow" THEN Section({"stf_count"}, "main") ELSE d] :
        d \in {NoSection} \cup { Section(ks, "main") : ks \in {{"stf_count"}, Keys} } }

\* The files an include list can name, as the i-th include; the first may
\* have a [workflow] section of its own.
IncludeConfigs(i) ==
    LET value == IF i = 1 THEN "include1" ELSE "include2"
    IN  { [s \in Sections |-> IF s = "workflow" THEN w ELSE d] :
            w \in IF i = 1 THEN {NoSection, Section(Keys, value)} ELSE {NoSection},
            d \in {NoSection} \cup { Section(ks, value) : ks \in {{"stf_interval"}, Keys} } }

\* [workflow].includes of the main config: up to two files.
IncludeLists ==
    {<<>>} \cup { <<a>> : a \in IncludeConfigs(1) }
           \cup { <<a, b>> : a \in IncludeConfigs(1), b \in IncludeConfigs(2) }

\* The testbed config files (none: no section).
TestbedConfigs ==
    { [s \in Sections |-> IF s = "workflow" THEN w ELSE d] :
        w \in {NoSection, Section({"stf_interval"}, "testbed")},
        d \in {NoSection} \cup { Section(ks, "testbed") : ks \in {{"stf_count"}, Keys} } }

\* **override_params: the keys given as run parameters.
OverrideParams == {{}, {"stf_interval"}, Keys}

\* _load_workflow_config, lines 362-366: the sections of one included file are
\* added to main_config.
AddIncluded(config, included_config) ==
    [s \in Sections |->
        IF s # "workflow" /\ ~config[s].present THEN included_config[s] ELSE config[s]]

\* _load_workflow_config
RECURSIVE load_workflow_config(_, _)
load_workflow_config(main_config, includes) ==
    IF includes = <<>> THEN main_config
    ELSE load_workflow_config(AddIncluded(main_config, Head(includes)), Tail(includes))

\* run_workflow, lines 266-271: the testbed config overrides, by section.
ApplyTestbedOverrides(config, overrides) ==
    [s \in Sections |->
        IF ~overrides[s].present THEN config[s]
        ELSE IF config[s].present
        THEN [present |-> TRUE,
              keys |-> [k \in Keys |-> IF overrides[s].keys[k] # NoKey
                                       THEN overrides[s].keys[k] ELSE config[s].keys[k]]]
        ELSE overrides[s]]

\* run_workflow, line 271: the sections of the config that are the very dict of
\* testbed_overrides.
Shared(config, overrides) ==
    { s \in Sections : overrides[s].present /\ ~config[s].present }

\* run_workflow, lines 273-279: the run parameters, on all matching keys of
\* the sections other than [workflow].
ApplyOverrideParams(config, override_params) ==
    [s \in Sections |->
        IF s # "workflow" /\ config[s].present
        THEN [present |-> TRUE,
              keys |-> [k \in Keys |-> IF k \in override_params /\ config[s].keys[k] # NoKey
                                       THEN "param" ELSE config[s].keys[k]]]
        ELSE config[s]]

ConfigRun(main_config, includes, override_params, config) ==
    [main_config |-> main_config, includes |-> includes,
     override_params |-> override_params, config |-> config]

\* run_workflow, lines 262-279: the config of one run. The parameters are
\* written into the dicts of the config, those shared with testbed_overrides
\* included.
run_workflow_config ==
    /\ agent = "config"
    /\ \E main_config \in MainConfigs, includes \in IncludeLists,
          override_params \in OverrideParams :
          LET loaded == load_workflow_config(main_config, includes)
              shared == Shared(loaded, testbed_overrides)
              config == ApplyOverrideParams(ApplyTestbedOverrides(loaded, testbed_overrides),
                                            override_params)
          IN  /\ config_run' = ConfigRun(main_config, includes, override_params, config)
              /\ testbed_overrides' =
                    [s \in Sections |-> IF s \in shared THEN config[s]
                                                        ELSE testbed_overrides[s]]
    /\ UNCHANGED <<agent, runner_vars, monitor_vars, epictopic, fp_vars, call_vars,
                   fm_vars, conn_vars, uam_vars, testbed_config>>

NoRun ==
    ConfigRun([s \in Sections |-> NoSection], <<>>, {}, [s \in Sections |-> NoSection])

\* WorkflowRunner.__init__, lines 218-227: the sections of the testbed config.
InitConfigVars ==
    /\ testbed_config \in TestbedConfigs
    /\ testbed_overrides = testbed_config
    /\ config_run = NoRun

\* No run's config is observed.
NoConfigRun ==
    /\ testbed_config = [s \in Sections |-> NoSection]
    /\ testbed_overrides = testbed_config
    /\ config_run = NoRun

NoOthers == NoFastmon /\ NoConnection /\ InitManagerVars /\ NoConfigRun

----------------------------------------------------------------------------
(* Initial states and specifications *)

\* WorkflowRunner.__init__: no workflow running, nothing in the Monitor.
InitRunnerVars ==
    /\ mode = "persistent"
    /\ operational_state = "READY"
    /\ stop_event = FALSE
    /\ current_execution_id = 0
    /\ current_workflow_name = "none"
    /\ workflow_thread = 0
    /\ listener = "idle"
    /\ nthreads = 0
    /\ thr = [t \in Threads |-> NoThread]
    /\ mon_next_id = 0
    /\ mon_run_number = 0
    /\ mon_defs = <<>>
    /\ mon_execs = <<>>
    /\ patches = <<>>
    /\ epictopic = <<>>

\* _create_tf_slices is not called on its own.
NoCall == call_num_slices = 0 /\ call_slices = <<>>

InitFP == agent = "fast_processing" /\ InitRunnerVars /\ InitFPVars /\ NoCall /\ NoOthers

SpecFP == InitFP /\ [][NextFP]_vars

SpecFPRun == InitFP /\ [][NextFPRun]_vars

\* WorkflowRunner.__init__ and, for --run-once, main up to runner.run_workflow(...)
InitRunner ==
    /\ agent = "runner"
    /\ mode \in {"persistent", "run_once"}
    /\ stop_event = FALSE
    /\ current_execution_id = 0
    /\ current_workflow_name = "none"
    /\ workflow_thread = 0
    /\ listener = "idle"
    /\ nthreads = 0
    /\ IF mode = "persistent"
       THEN /\ operational_state = "READY"
            /\ thr = [t \in Threads |-> NoThread]
       ELSE /\ operational_state = "PROCESSING"
            /\ \E r \in RunRequests :
                 thr = [t \in Threads |-> IF t = 1 THEN StartedThread(r) ELSE NoThread]
    /\ mon_next_id = 0
    /\ mon_run_number = 0
    /\ mon_defs = <<>>
    /\ mon_execs = <<>>
    /\ patches = <<>>
    /\ epictopic = <<>>
    /\ InitFPVars
    /\ NoCall
    /\ NoOthers

SpecRunner == InitRunner /\ [][NextRunner]_vars

\* The workflow thread and the listener thread are operating-system threads:
\* each keeps running while it has a step to take.
FairSpecRunner ==
    /\ SpecRunner
    /\ \A t \in Threads : WF_vars(RunnerThread(t))
    /\ WF_vars(stop_event_set)

\* A persistent or run-once runner up to the end of the first workflow it
\* accepts: no second run_workflow is accepted.
NextFirstWorkflow ==
    \/ \E frame \in RunnerFrames : runner_on_message(frame) /\ nthreads' <= 1
    \/ stop_event_set
    \/ \E t \in Threads : RunnerThread(t)

FairSpecFirstWorkflow ==
    /\ InitRunner /\ [][NextFirstWorkflow]_vars
    /\ \A t \in Threads : WF_vars(RunnerThread(t))
    /\ WF_vars(stop_event_set)

\* The values of num_slices _create_tf_slices is called with on its own: small
\* ones, divisors and non-divisors of tfs_per_stf, and the values around it.
SliceCounts ==
    (1..MaxSmallSliceCount) \cup {tfs_per_stf - 1, tfs_per_stf, tfs_per_stf + 1}

\* An agent in a run about to call _create_tf_slices(stf_filename, num_slices).
InitSlices ==
    /\ agent = "create_tf_slices"
    /\ InitRunnerVars
    /\ InitFPVars
    /\ call_num_slices \in SliceCounts
    /\ call_slices = <<>>
    /\ NoOthers

\* slices = self._create_tf_slices(stf_filename, num_slices): the slice data of
\* the loop, whatever the Monitor answers to each POST.
call_create_tf_slices ==
    /\ agent = "create_tf_slices"
    /\ call_slices = <<>>
    /\ call_slices' = create_tf_slices(1, call_num_slices, 1, 1)
    /\ UNCHANGED <<agent, runner_vars, monitor_vars, epictopic, fp_vars, call_num_slices,
                   other_vars>>

SpecSlices == InitSlices /\ [][call_create_tf_slices]_vars

InitFastmon ==
    /\ agent = "fastmon"
    /\ InitRunnerVars /\ InitFPVars /\ NoCall
    /\ InitFastmonVars /\ NoConnection /\ InitManagerVars /\ NoConfigRun

InitConnection ==
    /\ agent = "connection"
    /\ InitRunnerVars /\ InitFPVars /\ NoCall /\ NoFastmon
    /\ InitConnectionVars /\ InitManagerVars /\ NoConfigRun

\* A runner observed for the configs of its runs.
InitConfig ==
    /\ agent = "config"
    /\ InitRunnerVars /\ InitFPVars /\ NoCall
    /\ NoFastmon /\ NoConnection /\ InitManagerVars
    /\ InitConfigVars

SpecConfig == InitConfig /\ [][run_workflow_config]_vars

SpecConnection == InitConnection /\ [][NextConnection]_vars

\* The threads of the program keep running while they have a step to take,
\* and a broker that is down comes up again.
FairSpecConnection ==
    /\ SpecConnection
    /\ WF_vars(initial_connect) /\ WF_vars(retry_sleep) /\ WF_vars(enter_main_loop)
    /\ WF_vars(main_loop_exit) /\ WF_vars(process_exit)
    /\ WF_vars(on_disconnected) /\ WF_vars(reconnect)
    /\ WF_vars(broker_changes /\ ~broker_up)

SpecFastmon == InitFastmon /\ [][NextFastmon]_vars

\* Either agent process, observed on its own.
SpecAgents == (InitRunner \/ InitFP) /\ [][NextRunner \/ NextFP]_vars

----------------------------------------------------------------------------
(* Properties of the Workflow Runner *)

Last(seq) == seq[Len(seq)]
Range(seq) == { seq[i] : i \in 1..Len(seq) }
RecordExists(execution_id) == execution_id \in Range(mon_execs)
InSteppingLoop(t) == thr[t].pc \in {"on_simulation_step", "env_step"}
InfiniteDaq(t) ==
    thr[t].code = "daq_executor" /\ thr[t].cfg.physics_period_count = 0

\* C1: an execution whose record the runner created is PATCHed to at most one
\* status after `running`: no two status PATCHes are issued for it.
C1_OneTerminalStatus ==
    \A i, j \in 1..Len(patches) :
        (i # j /\ RecordExists(patches[i].execution_id))
            => patches[i].execution_id # patches[j].execution_id

\* C2 as stated: when the thread of an infinite-period DAQ workflow whose record
\* exists ends without an exception and a stop_workflow was accepted while the
\* runner was PROCESSING it, the last status written is `terminated`.
C2_StopWhileProcessingTerminates ==
    \A t \in Threads :
        ( /\ thr[t].pc = "set_ready"
          /\ InfiniteDaq(t)
          /\ stop_event
          /\ RecordExists(thr[t].execution_id)
          /\ \A i \in 1..Len(patches) : patches[i].status # "failed" )
        => (patches # <<>> /\ Last(patches).status = "terminated")

\* C2 amended: a stop flag set while the stepping loop of an infinite-period DAQ
\* workflow is running leads to the thread having ended with the runner READY
\* and the last status written `terminated` (`failed` when the event being
\* stepped raised); and epictopic receives messages only from env.step().
C2_StopInLoopTerminates ==
    /\ \A t \in Threads :
          (stop_event /\ InSteppingLoop(t) /\ InfiniteDaq(t))
            ~> ( /\ thr[t].pc = "dead"
                 /\ operational_state = "READY"
                 /\ patches # <<>>
                 /\ Last(patches).status \in {"terminated", "failed"} )
    /\ [][ (epictopic' # epictopic /\ epictopic' # <<>>)
             => \E t \in Threads : thr[t].pc = "env_step" ]_vars

C2_Witness ==
    \E t \in Threads :
        /\ thr[t].pc = "set_ready"
        /\ InfiniteDaq(t)
        /\ thr[t].sim.stf_sequence > 0
        /\ stop_event
        /\ patches # <<>>
        /\ Last(patches).status = "terminated"

C4_DefinitionCreatedOnce ==
    [][ \A t \in Threads :
          ( /\ thr[t].pc = "register_workflow_definition"
            /\ thr'[t].pc # "register_workflow_definition"
            /\ mon_defs # <<>> )
          => (mon_defs' = mon_defs /\ thr'[t].pc = "create_execution_record") ]_vars

\* C5: a run that raised after its execution record was created (it ends
\* without the `completed` PATCH) has `failed` as the last status written.
C5_RaiseMarksFailed ==
    \A t \in Threads :
        ( /\ thr[t].pc \in {"finally", "main_finally"}
          /\ thr[t].execution_id # 0
          /\ RecordExists(thr[t].execution_id)
          /\ \A i \in 1..Len(patches) : patches[i].status # "completed" )
        => (patches # <<>> /\ Last(patches).status = "failed")

\* C6: the simulation runs only for an execution whose record exists, and
\* `failed` is written only for an execution whose record exists.
C6_NoRecordNoWorkflow ==
    /\ \A t \in Threads :
          thr[t].sim.pc # "none" => RecordExists(thr[t].execution_id)
    /\ \A i \in 1..Len(patches) :
          patches[i].status = "failed" => RecordExists(patches[i].execution_id)

\* C7: the sequence number just allocated to a run is greater than that of
\* every execution already recorded.
C7_SequenceIncreases ==
    \A t \in Threads :
        thr[t].pc = "register_workflow_definition"
            => \A i \in 1..Len(mon_execs) : mon_execs[i] < thr[t].execution_id

----------------------------------------------------------------------------
(* Properties of the DAQ executor *)

RECURSIVE Repeat(_, _)
Repeat(n, seq) == IF n = 0 THEN <<>> ELSE seq \o Repeat(n - 1, seq)

MsgTypes(seq) == [i \in 1..Len(seq) |-> seq[i].msg_type]
IsPrefix(a, b) == Len(a) <= Len(b) /\ a = SubSeq(b, 1, Len(a))

\* The broadcasts of a complete run of n periods of k STFs.
ExpectedBroadcasts(n, k) ==
    <<"run_imminent", "start_run">> \o Repeat(k, <<"stf_gen">>)
      \o Repeat(n - 1, <<"pause_run", "resume_run">> \o Repeat(k, <<"stf_gen">>))
      \o <<"end_run">>

FiniteCountedDaq(t) ==
    /\ thr[t].code = "daq_executor"
    /\ thr[t].cfg.physics_period_count >= 1
    /\ thr[t].cfg.stf_count >= 1

Completed(t) == thr[t].sim.proc \in {"triggered", "processed"}

\* The broadcasts of thread t are a prefix of the expected sequence, and the
\* whole of it once execute() has finished.
BroadcastsAsExpected(t) ==
    LET expected == ExpectedBroadcasts(thr[t].cfg.physics_period_count,
                                       thr[t].cfg.stf_count)
    IN  /\ IsPrefix(MsgTypes(epictopic), expected)
        /\ Completed(t) => MsgTypes(epictopic) = expected

\* C10: a DAQ run of n >= 1 periods of k >= 1 STFs broadcasts a prefix of the
\* expected sequence, exactly that sequence once execute() has finished, and a
\* run whose executor process has finished ends with the status `completed`.
C10_RunToCompletion ==
    \A t \in Threads :
        (Alive(t) /\ FiniteCountedDaq(t) /\ thr[t].sim.pc # "none") =>
            /\ BroadcastsAsExpected(t)
            /\ ( /\ thr[t].sim.proc = "processed"
                 /\ thr[t].pc \in {"finally", "main_finally"} )
               => (patches # <<>> /\ Last(patches).status = "completed")

\* The stf_gen messages among the broadcasts, in order.
IsStfGen(message) == message.msg_type = "stf_gen"
StfGens(seq) == SelectSeq(seq, IsStfGen)

\* The number a sequence of decimal digits denotes.
RECURSIVE DigitsValue(_)
DigitsValue(digits) ==
    IF digits = <<>> THEN 0
    ELSE 10 * DigitsValue(SubSeq(digits, 1, Len(digits) - 1)) + digits[Len(digits)]

\* C11: within one run the i-th stf_gen broadcast has sequence i, and its
\* filename is swf.<run_id>.<six digits denoting i>.stf.
C11_StfSequence ==
    \A i \in 1..Len(StfGens(epictopic)) :
        LET message == StfGens(epictopic)[i]
        IN  /\ message.sequence = i
            /\ message.filename.prefix = "swf"
            /\ message.filename.run_id = message.run_id
            /\ message.run_id # 0
            /\ Len(message.filename.sequence) = 6
            /\ DigitsValue(message.filename.sequence) = i
            /\ message.filename.suffix = "stf"

\* A second physics period has broadcast an STF that continues the numbering
\* of the first.
C11_Witness ==
    /\ Len(StfGens(epictopic)) > MaxStfCount
    /\ \E k \in 1..Len(epictopic) :
          /\ epictopic[k].msg_type = "resume_run"
          /\ \E j \in (k + 1)..Len(epictopic) : epictopic[j].msg_type = "stf_gen"

\* C12: with stf_count = 0, physics_period_duration = 0 and n >= 1 periods, no
\* stf_gen is broadcast, and once execute() has finished the broadcasts are
\* run_imminent, start_run, n - 1 times pause_run and resume_run, and end_run.
EmptyPeriodsDaq(t) ==
    /\ thr[t].code = "daq_executor"
    /\ thr[t].cfg.physics_period_count >= 1
    /\ thr[t].cfg.stf_count = 0
    /\ thr[t].cfg.physics_period_duration = 0

C12_EmptyPeriods ==
    \A t \in Threads :
        (Alive(t) /\ EmptyPeriodsDaq(t) /\ thr[t].sim.pc # "none") =>
            /\ StfGens(epictopic) = <<>>
            /\ Completed(t) =>
                  MsgTypes(epictopic) =
                      ExpectedBroadcasts(thr[t].cfg.physics_period_count, 0)

C12_Witness ==
    \E t \in Threads :
        /\ Alive(t) /\ EmptyPeriodsDaq(t) /\ Completed(t)
        /\ thr[t].cfg.physics_period_count = MaxPeriods
        /\ \E k \in 1..Len(epictopic) : epictopic[k].msg_type = "start_run"
        /\ Last(epictopic).msg_type = "end_run"

----------------------------------------------------------------------------
(* Properties of the Fast-Processing agent *)

\* C13: the slices _create_tf_slices computes for num_slices = n >= 1 have
\* slice_id 0..n-1, tf_first <= tf_last, tf_count = tf_last - tf_first + 1, and
\* their ranges partition [0, tfs_per_stf - 1] contiguously.
C13_SlicesPartition ==
    call_slices # <<>> =>
        /\ Len(call_slices) = call_num_slices
        /\ \A k \in 1..Len(call_slices) :
              /\ call_slices[k].slice_id = k - 1
              /\ call_slices[k].tf_first <= call_slices[k].tf_last
              /\ call_slices[k].tf_count =
                    call_slices[k].tf_last - call_slices[k].tf_first + 1
              /\ call_slices[k].tf_first =
                    IF k = 1 THEN 0 ELSE call_slices[k - 1].tf_last + 1
        /\ Last(call_slices).tf_last = tfs_per_stf - 1

\* The tf-slices rows of a run, by database id.
RowsOf(run_id) == { k \in 1..Len(mon_tf_slices) : mon_tf_slices[k].run_number = run_id }

\* C14: no two tf-slices rows of one run have the same slice_id.
C14_SliceIdUniquePerRun ==
    \A run_id \in RunIds :
        \A i, j \in RowsOf(run_id) :
            i # j => mon_tf_slices[i].slice_id # mon_tf_slices[j].slice_id

\* The status PATCHes of row db_id among the calls of a step.
SlicePatches(calls, db_id) ==
    { c \in Range(calls) : c.method = "PATCH" /\ c.path = "tf-slices" /\ c.key = db_id }

\* C15: a tf-slices row is created `queued`, its status changes only in a step
\* that PATCHes it for a slice_result, and a row whose status is `completed` or
\* `failed` is not PATCHed again.
C15_SliceStatusLifecycle ==
    [][ /\ \A k \in 1..Len(mon_tf_slices') :
              k > Len(mon_tf_slices) => mon_tf_slices'[k].status = "queued"
        /\ \A k \in 1..Len(mon_tf_slices) :
              /\ mon_tf_slices'[k].status # mon_tf_slices[k].status
                    => SlicePatches(fp_calls', k) # {}
              /\ mon_tf_slices[k].status \in {"completed", "failed"}
                    => SlicePatches(fp_calls', k) = {} ]_vars

\* C16: handling a slice_result of run R that names an existing slice of R,
\* with every Monitor call succeeding, PATCHes that slice once, to `completed`
\* when the result counts as done and to `failed` otherwise, and a done result
\* increases results_done by one.
C16_ResultCompletesSlice ==
    [][ \A frame \in FpFrames :
          ( /\ agent = "fast_processing"
            /\ frame.msg_type = "slice_result"
            /\ ~FpMessageDropped(frame)
            /\ frame.run_id \in RunIds
            /\ SlicesFound(frame.run_id, frame.slice_id) # {}
            /\ fp_handle(frame, EmptyParams, AllSucceed) )
          => LET found == SlicesFound(frame.run_id, frame.slice_id)
                 db_id == CHOOSE k \in found : \A other \in found : k <= other
                 status == IF ResultDone(frame) THEN "completed" ELSE "failed"
             IN  /\ MonitorCall("PATCH", "tf-slices", db_id, status, 0)
                        \in Range(fp_calls')
                 /\ mon_tf_slices'[db_id].status = status
                 /\ ResultDone(frame) =>
                        /\ fp_stats'.results_keys
                        /\ fp_stats'.results_done = fp_stats.results_done + 1 ]_vars

\* A tf_file_registered of run R handled with every Monitor call and every send
\* succeeding adds 1, N and N to the counters of R's run-states row and
\* publishes N slice messages of R, N being the slices_per_sample in force.
SampleCounted(frame, fetched) ==
    LET ctx == update_run_context(frame, fetched)
        N == NumSlices(ctx)
        R == ctx.current_run_id
    IN  /\ mon_run_states'[R] =
              [stf_samples_received |-> mon_run_states[R].stf_samples_received + 1,
               slices_created |-> mon_run_states[R].slices_created + N,
               slices_queued |-> mon_run_states[R].slices_queued + N]
        /\ Len(panda_slices') = N
        /\ \A k \in 1..Len(panda_slices') : panda_slices'[k].run_id = R

\* The tf_file_registered messages of a run that the agent does not drop.
SampleFrames ==
    { frame \in FpFrames :
        /\ frame.msg_type = "tf_file_registered"
        /\ ~FpMessageDropped(frame)
        /\ frame.run_id \in RunIds }

AllSucceedSample(frame, fetched) ==
    /\ agent = "fast_processing"
    /\ fp_tf_files_received' = update_run_context(frame, fetched).tf_files_received + 1
    /\ fp_handle(frame, fetched, AllSucceed)

C18_SlicesCreatedMatchesRows ==
    \A run_id \in RunIds :
        MonitorCall("PATCH", "run-states", run_id, "completed", 0) \in Range(fp_calls)
            => mon_run_states[run_id].slices_created = Cardinality(RowsOf(run_id))

\* C19 (its end_run half): the agent publishes no slice message of a run right
\* after it has published that run's end_run on the workers topic.
C19_NoSliceAfterEndRun ==
    [][ \A k \in 1..Len(panda_slices') :
          ~ /\ panda_workers # <<>>
            /\ panda_workers[1].msg_type = "end_run"
            /\ panda_workers[1].run_id \in RunIds
            /\ panda_slices'[k].run_id = panda_workers[1].run_id ]_vars

\* C20: the TF files of an execution are sliced with the parameters fetched for
\* that execution (or with none, the fetch having given nothing).
C20_ParamsOfCurrentExecution ==
    (\E c \in Range(fp_calls) : c.method = "POST" /\ c.path = "tf-slices")
        => \/ fp_workflow_params.empty
           \/ fp_workflow_params.execution_id = fp_current_execution_id

----------------------------------------------------------------------------
(* Properties of the Fast-Monitoring agent *)

\* The agent handles the frame with every POST and every send succeeding.
AllSucceedStf(frame) ==
    /\ agent = "fastmon"
    /\ ~Filtered(frame)
    /\ fm_handle(frame, FmAllSucceed(fm_config))

\* One tf_file_registered has been sent for each row created, in order.
OneMessagePerRecord(files, sent) ==
    /\ Len(sent) = Len(files)
    /\ \A k \in 1..Len(sent) :
          /\ sent[k].msg_type = "tf_file_registered"
          /\ sent[k].tf_filename = files[k].tf_filename

\* C21 as stated: handling an stf_gen of the agent's namespace creates TF
\* records (as many as tf_files_per_stf, when every call succeeds) and sends
\* one tf_file_registered for each record.
C21_StfGenSampled ==
    [][ \A frame \in FmFrames :
          (AllSucceedStf(frame) /\ frame.msg_type = "stf_gen" /\ frame.filename # 0) =>
              /\ Len(fastmon_files') = fm_config.tf_files_per_stf
              /\ OneMessagePerRecord(fastmon_files', fm_sent') ]_vars

\* C21 amended: handling an stf_ready that names a file creates tf_files_per_stf
\* TF records and sends one tf_file_registered for each, when every call
\* succeeds; handling an stf_gen creates no record and sends nothing.
C21_StfReadySampled ==
    [][ \A frame \in FmFrames :
          AllSucceedStf(frame) =>
              /\ (frame.msg_type = "stf_ready" /\ frame.filename # 0) =>
                    /\ Len(fastmon_files') = fm_config.tf_files_per_stf
                    /\ OneMessagePerRecord(fastmon_files', fm_sent')
              /\ frame.msg_type = "stf_gen" =>
                    /\ fastmon_files' = <<>>
                    /\ fm_sent' = <<>> ]_vars

\* An stf_ready has been sampled into the largest number of TF records, each
\* with its tf_file_registered.
C21_Witness ==
    /\ agent = "fastmon"
    /\ Len(fastmon_files) = MaxTfFilesPerStf
    /\ OneMessagePerRecord(fastmon_files, fm_sent)
    /\ fm_processing_stats.total_tf_files_created >= MaxTfFilesPerStf

\* C22: with selection_fraction = 0.0 handling an STF creates no TF record and
\* sends no tf_file_registered; with selection_fraction = 1.0 every STF that
\* names a file is sampled into at least one TF record.
C22_SelectionFraction ==
    [][ \A frame \in FmFrames :
          (AllSucceedStf(frame) /\ frame.msg_type = "stf_ready" /\ frame.filename # 0) =>
              /\ fm_config.selection_fraction = 0 =>
                    (fastmon_files' = <<>> /\ fm_sent' = <<>>)
              /\ (fm_config.selection_fraction = 10 /\ fm_config.tf_files_per_stf >= 1) =>
                    fastmon_files' # <<>> ]_vars

----------------------------------------------------------------------------
(* Properties of the User Agent Manager and of the broker connections *)

\* The place of a call in the order of start_testbed.
StartRank(call) ==
    CASE call.cmd = "load_config" -> 0
      [] call.cmd \in {"status", "supervisord"} -> 1
      [] call.cmd = "start" /\ call.program = "workflow-runner" -> 2
      [] OTHER -> 3

AgentStarts(calls) == SelectSeq(calls, LAMBDA call : StartRank(call) = 3)

\* C23: a start_testbed loads the config, then makes sure supervisord runs, then
\* starts workflow-runner, then starts the mapped program of each enabled
\* agent; when supervisord cannot be started or workflow-runner does not
\* start, no agent program is started and agents_running is not assigned.
C23_StartTestbedOrder ==
    [][ \A new_config \in UamConfigs : \A o \in StartOutcomes :
          (ManagerListens /\ o.load # "raise" /\ handle_start_testbed(new_config, o)) =>
              LET calls == supervisor_calls'
                  failed == ~ensure_supervisord(o).result \/ ~o.runner_started
              IN  /\ calls[1].cmd = "load_config"
                  /\ \A i, j \in 1..Len(calls) :
                        i < j => StartRank(calls[i]) <= StartRank(calls[j])
                  /\ failed => (AgentStarts(calls) = <<>> /\ agents_running' = agents_running)
                  /\ ~failed =>
                        /\ \E k \in 1..Len(calls) : StartRank(calls[k]) = 1
                        /\ Cardinality({ k \in 1..Len(calls) : StartRank(calls[k]) = 2 }) = 1
                        /\ AgentStarts(calls) =
                              [k \in 1..Len(get_enabled_agents(uam_config')) |->
                                  SupervisorCall("start", get_enabled_agents(uam_config')[k])]
                        /\ agents_running' ]_vars

\* A start_testbed has started supervisord, workflow-runner and two agents.
C23_Witness ==
    /\ program = "agent_manager"
    /\ agents_running
    /\ Len(supervisor_calls) = 6
    /\ supervisor_calls[3].cmd = "supervisord"
    /\ supervisor_calls[4] = SupervisorCall("start", "workflow-runner")
    /\ supervisor_calls[6] = SupervisorCall("start", "example-fastmon-agent")

\* C24 (its last part): once the running flag is false, on_disconnected makes no
\* reconnect attempt, that is no step calls connect() from on_disconnected.
C24_NoReconnectAfterSignal ==
    [][ ~ ( /\ agent = "connection"
            /\ ~running
            /\ receiver_pc = "reconnect_delay"
            /\ receiver_pc' = "idle"
            /\ main_pc' = main_pc ) ]_vars

\* A running program in its main loop that holds no subscription.
Unsubscribed ==
    /\ program \in {"agent_manager", "example_agent"}
    /\ main_pc = "loop"
    /\ running
    /\ ~subscribed

\* C25: a running program that has lost its subscription is eventually
\* subscribed again (or has stopped running), the broker coming up again.
C25_Resubscribed == Unsubscribed ~> ~Unsubscribed

ConnectEvents(log) ==
    SelectSeq(log, LAMBDA e : e.what \in {"connected", "connect_failed"})

\* C26: the initial connection is attempted at most 3 times, a failed attempt
\* is followed by a 5-second wait before the next one, nothing is attempted
\* after the first success, three failures raise the error, and a program
\* whose connection raised has not subscribed and has not entered its main loop.
C26_InitialConnectRetries ==
    program \in {"result_agent", "workflow_runner", "agent_manager"} =>
        /\ attempt <= 3
        /\ Len(ConnectEvents(connect_log)) = attempt
        /\ \A k \in 1..Len(connect_log) :
              /\ (connect_log[k].what = "connect_failed" /\ k < Len(connect_log)) =>
                    /\ connect_log[k + 1] = ConnectEvent("sleep", 5)
                    /\ k + 2 <= Len(connect_log) =>
                          connect_log[k + 2].what \in {"connected", "connect_failed"}
              /\ connect_log[k].what = "connected" =>
                    \A j \in (k + 1)..Len(connect_log) :
                        connect_log[j].what \in {"subscribe", "main_loop"}
              /\ connect_log[k].what \in {"subscribe", "main_loop"} =>
                    \E j \in 1..(k - 1) : connect_log[j].what = "connected"
        /\ Cardinality({ k \in 1..Len(connect_log) :
                            connect_log[k].what = "connect_failed" }) = 3
              => main_pc = "raised"
        /\ main_pc = "raised" =>
              /\ \A k \in 1..Len(connect_log) :
                    connect_log[k].what \in {"connect_failed", "sleep"}
              /\ ~subscribed
              /\ ~is_connected

\* Three attempts of the result agent have failed and the error was raised.
C26_Witness ==
    /\ program = "result_agent"
    /\ main_pc = "raised"
    /\ attempt = 3
    /\ Len(connect_log) = 5

----------------------------------------------------------------------------
(* Properties of namespaces *)

\* C27: in the stepping loop the stop flag is examined before every simulation
\* event. With the flag set the head of the loop never goes on to env.step();
\* every env.step() returns to the head of the loop (or raises), so at most the
\* event being stepped when the flag was set completes; and the flag is not
\* cleared while a thread is in the loop.
C27_StopCheckedBeforeEveryEvent ==
    [][ \A t \in Threads :
          /\ (stop_event /\ thr[t].pc = "on_simulation_step")
                => thr'[t].pc # "env_step"
          /\ (thr[t].pc = "env_step" /\ thr'[t] # thr[t])
                => thr'[t].pc \in {"on_simulation_step", "except"}
          /\ (stop_event /\ InSteppingLoop(t)) => stop_event' ]_vars

\* A stepping loop that ran some events of an unbounded DAQ workflow and was
\* left at its head because of the stop flag.
C27_Witness ==
    \E t \in Threads :
        /\ thr[t].pc = "update_completed"
        /\ stop_event
        /\ InfiniteDaq(t)
        /\ thr[t].sim.stf_sequence > 0
        /\ thr[t].sim.proc # "processed"
        /\ ~DurationReached(t)

\* The stop_workflow frames of RunnerFrames that reach _handle_stop_workflow.
StopFrames ==
    [msg_type : {"stop_workflow"}, namespace : {Namespace}, workflow_name : {"none"},
     request : {[code |-> "daq_executor", cfg |-> DefaultConfig]},
     execution_id : 0..MaxRuns]

\* The condition of C29: the runner is PROCESSING and the message's execution_id
\* is absent or equals the current execution id.
StopApplies(execution_id) ==
    /\ operational_state = "PROCESSING"
    /\ (execution_id = 0 \/ execution_id = current_execution_id)

\* C29: the handling of a stop_workflow goes on to set the stop flag only if the
\* runner is PROCESSING and the message's execution_id is absent or equals the
\* current execution id; in any other case it leaves the stop flag and the
\* running workflow unchanged; and nothing else sets the stop flag.
C29_StopWorkflowFrame ==
    [][ /\ listener = "idle" =>
              \A frame \in StopFrames :
                  (~StopApplies(frame.execution_id) /\ runner_on_message(frame))
                     => UNCHANGED <<stop_event, listener, operational_state,
                                    current_execution_id, current_workflow_name,
                                    workflow_thread, thr>>
        /\ (~stop_event /\ stop_event') => listener = "stop_event_set" ]_vars

\* A stop_workflow has set the flag while the thread of the second workflow is
\* in its stepping loop.
C29_Witness ==
    /\ stop_event
    /\ operational_state = "PROCESSING"
    /\ current_execution_id = MaxRuns
    /\ \E t \in Threads : InSteppingLoop(t) /\ thr[t].execution_id = current_execution_id

\* The first include of the list that defines section s (0: none does).
FirstDefining(includes, s) ==
    IF \E i \in 1..Len(includes) : includes[i][s].present
    THEN CHOOSE i \in 1..Len(includes) :
            /\ includes[i][s].present
            /\ \A j \in 1..(i - 1) : ~includes[j][s].present
    ELSE 0

\* The section the claim takes from the workflow config files: the main
\* config's when it defines it, else the first include's that defines it,
\* never an include's [workflow].
FromFiles(run, s) ==
    IF run.main_config[s].present THEN run.main_config[s]
    ELSE IF s # "workflow" /\ FirstDefining(run.includes, s) # 0
    THEN run.includes[FirstDefining(run.includes, s)][s]
    ELSE NoSection

\* The value the claim gives key k of a section s defined by the workflow
\* config files: the run parameter outside [workflow] when the key is there,
\* else the testbed config's key, else the files' key.
ClaimedKey(run, s, k) ==
    LET merged == IF testbed_config[s].present /\ testbed_config[s].keys[k] # NoKey
                  THEN testbed_config[s].keys[k]
                  ELSE FromFiles(run, s).keys[k]
    IN  IF s # "workflow" /\ k \in run.override_params /\ merged # NoKey
        THEN "param" ELSE merged

C34_TestbedOverridesKept ==
    agent = "config" => testbed_overrides = testbed_config

\* The stepping loop of thread t has exited and the stop flag is not set: the
\* flag is cleared only by _handle_run_workflow, which does nothing while the
\* runner is PROCESSING, so the loop did not exit on the flag.
ExitedUnstopped(t) == At(t, "update_completed") /\ ~stop_event

\* A PATCH has set the execution of thread t to terminated.
RecordedTerminated(t) ==
    \E j \in 1..Len(patches) :
        patches[j].execution_id = thr[t].execution_id /\ patches[j].status = "terminated"

\* C35: an execution whose stepping loop exited without the stop flag being
\* observed (the workflow process was processed, or the duration limit was
\* reached) is never recorded as terminated, whatever stop_workflow arrives
\* between the exit of the loop and the return to READY.
C35_TerminatedOnlyIfStopObserved ==
    \A t \in Threads : [](ExitedUnstopped(t) => [](~RecordedTerminated(t)))

\* C36: once the execution has ended (no workflow thread is left to step the
\* executor, so nothing more is broadcast for its run), every run for which
\* run_imminent or start_run was broadcast on /topic/epictopic has an end_run
\* broadcast there, however the stepping loop was left.
C36_EndRunBroadcast ==
    (agent = "runner" /\ \A t \in Threads : ~Alive(t)) =>
        \A i \in 1..Len(epictopic) :
            epictopic[i].msg_type \in {"run_imminent", "start_run"} =>
                \E j \in 1..Len(epictopic) :
                    /\ epictopic[j].msg_type = "end_run"
                    /\ epictopic[j].run_id = epictopic[i].run_id

\* C37: once the thread of an execution has ended, the last PATCH the runner
\* made to the execution record, when it set the status completed, terminated or
\* failed, carries a non-null end_time: the execution keeps an end time and no
\* later update resets the one an earlier update set.
C37_FinalStatusHasEndTime ==
    agent = "runner" =>
        \A i \in 1..Len(patches) :
            ( /\ \E k \in 1..Len(mon_execs) : mon_execs[k] = patches[i].execution_id
              /\ \A t \in Threads : Alive(t) => thr[t].execution_id # patches[i].execution_id
              /\ \A j \in (i + 1)..Len(patches) :
                    patches[j].execution_id # patches[i].execution_id
              /\ patches[i].status \in {"completed", "terminated", "failed"} )
            => patches[i].end_time

\* C38: once the manager's main loop has exited after a shutdown signal and
\* disconnect() has returned, the manager holds no broker connection and no
\* subscription, wherever the receiver thread was in on_disconnected.
C38_NoConnectionAfterDisconnect ==
    (agent = "connection" /\ program = "agent_manager" /\ main_pc = "returned") =>
        (~is_connected /\ ~subscribed)

\* C39: every tf_file_registered sent while handling an stf_ready whose
\* filename is F carries stf_filename = F, never None, whichever of the POSTs
\* and sends succeed.
C39_StfFilenameCarried ==
    [][ agent = "fastmon" =>
          \A frame \in FmFrames : \A outcome \in FmOutcomes(fm_config) :
            ( /\ ~Filtered(frame)
              /\ frame.msg_type = "stf_ready"
              /\ frame.filename # 0
              /\ fm_handle(frame, outcome) ) =>
                \A k \in 1..Len(fm_sent') : fm_sent'[k].stf_filename = frame.filename ]_vars

\* C40: a stop_workflow accepted for one workflow never stops a later one. The
\* step that accepts a run_workflow (it starts a thread) leaves the stop flag
\* clear with no stop_event.set() pending, and the flag is raised only by the
\* stop_event.set() of a stop_workflow that the listener handled while the
\* runner was PROCESSING, hence after that acceptance: when the simulation of
\* the accepted workflow begins the flag is set only by such a stop_workflow.
C40_StopNotCarriedOver ==
    [][ agent = "runner" =>
          /\ nthreads' # nthreads => (~stop_event' /\ listener' = "idle")
          /\ (~stop_event /\ stop_event') =>
                (listener = "stop_event_set" /\ nthreads' = nthreads)
          /\ (listener = "idle" /\ listener' = "stop_event_set") =>
                /\ operational_state = "PROCESSING"
                /\ nthreads' = nthreads
                /\ \E frame \in StopFrames : runner_on_message(frame) ]_vars

\* The workflow a stop_workflow stopped has ended with the stop flag still set,
\* and the runner is READY to accept the run_workflow of a later workflow.
C40_Witness ==
    /\ agent = "runner"
    /\ mode = "persistent"
    /\ stop_event
    /\ operational_state = "READY"
    /\ listener = "idle"
    /\ nthreads >= 1 /\ nthreads < MaxRuns
    /\ \A t \in Threads : ~Alive(t)

\* The start_run and end_run frames of FpFrames that the agent handles.
StartEndFrames ==
    [msg_type : {"start_run", "end_run"}, namespace : {Namespace},
     run_id : RunIds, stf : {0}, state : {"none"}, slice_id : {-1}, processed : {FALSE}]

\* C30: the step that handles a start_run leaves the agent PROCESSING, and the
\* step that handles an end_run leaves it READY with current_run_id,
\* current_execution_id and the workflow parameters cleared, whatever the
\* run-state PATCH and the broadcast to the workers topic came to.
C30_StartEndRunState ==
    [][ agent = "fast_processing" =>
          \A frame \in StartEndFrames :
            \A fetched \in FetchChoices(frame) :
              \A outcome \in Outcomes(frame, update_run_context(frame, fetched)) :
                fp_handle(frame, fetched, outcome) =>
                    IF frame.msg_type = "start_run"
                    THEN fp_operational_state' = "PROCESSING"
                    ELSE /\ fp_operational_state' = "READY"
                         /\ fp_current_run_id' = 0
                         /\ fp_current_execution_id' = 0
                         /\ fp_workflow_params' = EmptyParams ]_vars

\* The end_run of a run has been handled, its broadcast to the workers topic
\* having failed: the agent is READY with nothing of the run left.
C30_Witness ==
    /\ agent = "fast_processing"
    /\ \E run_id \in RunIds :
          /\ MonitorCall("PATCH", "run-states", run_id, "completed", 0) \in Range(fp_calls)
          /\ MonitorCall("POST", "system-state-events", run_id, "end_run", 0)
                \in Range(fp_calls)
    /\ panda_workers = <<>>
    /\ fp_operational_state = "READY"
    /\ fp_current_run_id = 0
    /\ fp_current_execution_id = 0
    /\ fp_workflow_params = EmptyParams

\* The tf-slices rows the Monitor created during a step.
NewRows == SubSeq(mon_tf_slices', Len(mon_tf_slices) + 1, Len(mon_tf_slices'))

\* C31: every slice message published in a step is of a slice whose tf-slices
\* row the Monitor created in that step, and a run-states row that the step
\* changes has its slice counters raised by the number of rows created: a
\* slice whose POST failed is neither published nor counted.
C31_PublishedOnlyIfCreated ==
    [][ agent = "fast_processing" =>
          /\ \A k \in 1..Len(panda_slices') :
                \E j \in 1..Len(NewRows) :
                    /\ NewRows[j].slice_id = panda_slices'[k].content.slice_id
                    /\ NewRows[j].run_number = panda_slices'[k].run_id
          /\ Len(panda_slices') <= Len(NewRows)
          /\ \A run_id \in RunIds :
                mon_run_states'[run_id] # mon_run_states[run_id] =>
                    /\ mon_run_states'[run_id].slices_created =
                          mon_run_states[run_id].slices_created + Len(NewRows)
                    /\ mon_run_states'[run_id].slices_queued =
                          mon_run_states[run_id].slices_queued + Len(NewRows) ]_vars

\* A TF file of two slices has been handled of which the POST of the first
\* failed: the second alone is published and counted.
C31_Witness ==
    /\ agent = "fast_processing"
    /\ \E run_id \in RunIds :
          /\ MonitorCall("POST", "tf-slices", run_id, "queued", 0) \in Range(fp_calls)
          /\ MonitorCall("POST", "tf-slices", run_id, "queued", 1) \in Range(fp_calls)
          /\ MonitorCall("PATCH", "run-states", run_id, "slices", 1) \in Range(fp_calls)
          /\ mon_run_states[run_id].slices_created = 1
          /\ Cardinality(RowsOf(run_id)) = 1
    /\ Len(panda_slices) = 1
    /\ panda_slices[1].content.slice_id = 1

\* The slice_result frames of FpFrames the agent handles from which no
\* slice_id can be extracted.
NoSliceIdFrames ==
    [msg_type : {"slice_result"}, namespace : {Namespace}, run_id : 0..MaxRunId,
     stf : {0}, state : {"done", "failed"}, slice_id : {-1}, processed : {FALSE}]

\* C32: the step that handles a slice_result from which no slice_id can be
\* extracted issues no call on /tf-slices/ (no query, no PATCH) and leaves
\* every tf-slices row as it was.
C32_ResultWithoutSliceIdDropped ==
    [][ agent = "fast_processing" =>
          \A frame \in NoSliceIdFrames :
            \A fetched \in FetchChoices(frame) :
              \A outcome \in Outcomes(frame, update_run_context(frame, fetched)) :
                fp_handle(frame, fetched, outcome) =>
                    /\ \A c \in Range(fp_calls') : c.path # "tf-slices"
                    /\ mon_tf_slices' = mon_tf_slices ]_vars

\* Such a result has been handled to its end (counted, its system event
\* posted, nothing else) while the Monitor holds a queued slice.
C32_Witness ==
    /\ agent = "fast_processing"
    /\ Len(fp_calls) = 1
    /\ fp_calls[1].path = "system-state-events"
    /\ fp_calls[1].what = "slice_result"
    /\ fp_stats.results_received >= 1
    /\ \E k \in 1..Len(mon_tf_slices) : mon_tf_slices[k].status = "queued"

\* The tf_file_registered frames of FpFrames that the agent handles.
TfFileFrames ==
    { f \in [msg_type : {"tf_file_registered"}, namespace : {Namespace},
              run_id : 0..MaxRunId, run_number : RunIds, stf : {1}, state : {"none"},
              slice_id : {-1}, processed : {FALSE}] :
        f.run_id # 0 => f.run_number = f.run_id }

\* C33: every tf-slices row created in the step that handles a
\* tf_file_registered carries the run_number of that message, whatever
\* messages were handled before it; none has a null run number (0) or the
\* number of another run.
C33_SliceRunNumber ==
    [][ agent = "fast_processing" =>
          \A frame \in TfFileFrames :
            \A fetched \in FetchChoices(frame) :
              \A outcome \in Outcomes(frame, update_run_context(frame, fetched)) :
                fp_handle(frame, fetched, outcome) =>
                    \A j \in 1..Len(NewRows) : NewRows[j].run_number = frame.run_number ]_vars

Foreign(frame) == frame.namespace # Namespace

\* C8: in every state of the Workflow Runner and of the Fast-Processing agent,
\* handling a message of another namespace has no successor that differs from
\* the current state in the agent's fields, the Monitor or the broker.
C8_ForeignMessagesIgnored ==
    /\ \A frame \in RunnerFrames :
          Foreign(frame) => ~ENABLED (runner_on_message(frame) /\ vars' # vars)
    /\ \A frame \in FpFrames :
          Foreign(frame) => ~ENABLED (fp_on_message(frame) /\ vars' # vars)

\* A run in progress at either agent, where a message of the own namespace
\* would be acted on and a message of another namespace can be delivered.
C8_Witness ==
    \/ /\ agent = "fast_processing"
       /\ fp_operational_state = "PROCESSING"
       /\ fp_current_run_id # 0
       /\ panda_slices # <<>>
       /\ \E frame \in FpFrames :
            /\ Foreign(frame)
            /\ frame.msg_type = "end_run"
            /\ ENABLED fp_on_message(frame)
            /\ ENABLED (fp_on_message([frame EXCEPT !.namespace = Namespace])
                          /\ vars' # vars)
    \/ /\ agent = "runner"
       /\ \E t \in Threads : thr[t].pc = "env_step"
       /\ \E frame \in RunnerFrames :
            /\ Foreign(frame)
            /\ frame.msg_type = "stop_workflow"
            /\ ENABLED runner_on_message(frame)
            /\ ENABLED (runner_on_message([frame EXCEPT !.namespace = Namespace])
                          /\ vars' # vars)

\* C9: every message published on /topic/epictopic, /topic/panda.workers and
\* /topic/panda.slices has a top-level namespace field, equal to the namespace
\* of the agent.
CarriesNamespace(message) ==
    "namespace" \in DOMAIN message /\ message.namespace = Namespace

C9_PublishedNamespace ==
    /\ \A k \in 1..Len(epictopic) : CarriesNamespace(epictopic[k])
    /\ \A k \in 1..Len(panda_workers) : CarriesNamespace(panda_workers[k])
    /\ \A k \in 1..Len(panda_slices) : CarriesNamespace(panda_slices[k])

====
